---------------------------- MODULE Spec2Model ----------------------------
(***************************************************************************)
(* A model of porm: the connection / transaction facade (DBApi, MyDBApi)   *)
(* over an opaque MySQL driver, and the filter-term compiler (parse).      *)
(*                                                                         *)
(* Facade operations are written as operators on a "world" record w that   *)
(* carries everything one call can read or change:                         *)
(*   w.s        the calling thread's _ConnectionState                      *)
(*   w.deferred, w.autorollback  the facade's attributes of these names    *)
(*   w.lock     the holder of the facade's _lock (0 = free), w.me the      *)
(*              calling thread                                             *)
(*   w.drv      the driver's connections, w.nconn how many were opened     *)
(*   w.durable  the rows committed to the database                         *)
(*   w.fault    the driver call that fails during this call, if any        *)
(*   w.calls    the driver calls made by this call, in order               *)
(*   w.exc      the exception in flight, w.ret the value returned last,    *)
(*   w.aux      a local variable of the running method                     *)
(* Every operation leaves a world with an exception in flight as it is,    *)
(* so that f(g(w)) reads "g, then f unless g raised"; handlers and finally *)
(* blocks clear the exception, run, and raise it again.  An action applies *)
(* one operation to the world of the calling thread and stores the result. *)
(***************************************************************************)
EXTENDS Integers, Sequences, FiniteSets, TLC

VARIABLES
    st,            \* thread -> _ConnectionState of the facade in that slot
    deferred,      \* DBApi.deferred
    autorollback,  \* DBApi.autorollback
    lock,          \* DBApi._lock: 0 when free, else the thread holding it
    pc,            \* thread -> "run" | "blocked" (waiting for _lock forever)
    scopes,        \* thread -> the caller's open `with` blocks, innermost last
    drv,           \* connection id -> the driver's connection object
    nconn,         \* number of connections the driver has opened
    durable,       \* rows committed to the database
    last,          \* the last call: who, what, its outcome, its driver calls
    pin,           \* parse: the call's arguments
    pout,          \* parse: the call's result
    cond           \* a Condition, the calls made on it, the last node built

dbvars == <<st, deferred, autorollback, lock, pc, scopes, drv, nconn, durable, last>>
parsevars == <<pin, pout, cond>>
vars == <<st, deferred, autorollback, lock, pc, scopes, drv, nconn, durable, last, pin, pout, cond>>

\* ------------------------------------------------------------- bounds
MaxConns == 2      \* connections the driver opens in one run
MaxRows == 1       \* rows written in one run
MaxScopes == 2     \* `with` blocks one thread has open at once
MaxDepth == 2      \* entries of one transaction stack
MaxTerms == 2      \* terms of one mapping given to parse
MaxChain == 2      \* and_<name> calls chained on one Condition

Threads == {1, 2}
ConnIds == 1..MaxConns
None == 0

\* ------------------------------------------------------------- exceptions
\* an exception in flight: the __name__ of its class, whether the class is
\* the driver's (pymysql.err) or not, and its args
NoExc == [type |-> "none", driver |-> FALSE, args |-> <<>>]
Exc(type, msg) == [type |-> type, driver |-> FALSE, args |-> <<msg>>]
\* pymysql raises its errors with args (errno, message)
DrvExc(type, errno, msg) == [type |-> type, driver |-> TRUE, args |-> <<errno, msg>>]
ProgrammingError == DrvExc("ProgrammingError", "1064", "You have an error in your SQL syntax")
LostConnection == DrvExc("OperationalError", "2013", "Lost connection to MySQL server during query")
\* the thread never returns from the call: it waits for _lock
Stuck == Exc("deadlock", "")
\* the run would pass a bound of the model: the action is not taken
OutOfBounds == Exc("bound", "")

Ok(w) == w.exc.type = "none"
Raise(w, e) == [w EXCEPT !.exc = e]
Return(w, v) == [w EXCEPT !.ret = v]
Log(w, call, c, arg) ==
    [w EXCEPT !.calls = Append(@, [call |-> call, conn |-> c, arg |-> arg])]
\* neither is a Python exception: no handler catches it, no finally runs
Fatal(w) == w.exc = Stuck \/ w.exc = OutOfBounds
\* `except Exception` catches it
Caught(w) == ~Ok(w) /\ ~Fatal(w)
\* the world a handler or a finally block starts from
Cleared(w) == [w EXCEPT !.exc = NoExc]
\* after a handler or finally block left r while e was in flight: e goes
\* on, unless the block raised an exception of its own
Reraise(r, e) == IF Ok(r) THEN Raise(r, e) ELSE r

\* ------------------------------------------------------------- SQL text
\* Statements are sequences of characters, so that execute_sql's test of
\* the first six characters is computed, not assumed.
SELECT_1 == <<"S", "E", "L", "E", "C", "T", " ", "1">>
select_1 == <<"s", "e", "l", "e", "c", "t", " ", "1">>
SP_SELECT_1 == <<" ", "S", "E", "L", "E", "C", "T", " ", "1">>
INSERT_1 == <<"I", "N", "S", "E", "R", "T", " ", "%", "s">>
INSERT_a == <<"I", "N", "S", "E", "R", "T", " ", "%", "(", "a", ")", "s">>
DELETE_1 == <<"D", "E", "L", "E", "T", "E">>

Whitespace == {" ", "\t", "\n"}

LowerChar(c) ==
    CASE c = "S" -> "s" [] c = "E" -> "e" [] c = "L" -> "l" [] c = "C" -> "c"
      [] c = "T" -> "t" [] c = "I" -> "i" [] c = "N" -> "n" [] c = "R" -> "r"
      [] c = "D" -> "d" [] c = "A" -> "a" [] c = "V" -> "v" [] c = "P" -> "p"
      [] c = "O" -> "o" [] c = "B" -> "b" [] c = "K" -> "k"
      [] OTHER -> c

Lower(s) == [i \in 1..Len(s) |-> LowerChar(s[i])]
Prefix(s, n) == SubSeq(s, 1, IF Len(s) < n THEN Len(s) ELSE n)
StartsWith(s, p) == Len(s) >= Len(p) /\ SubSeq(s, 1, Len(p)) = p

RECURSIVE LStrip(_)
LStrip(s) == IF s # <<>> /\ s[1] \in Whitespace THEN LStrip(Tail(s)) ELSE s

\* What the database server takes the statement to be: leading whitespace
\* is not part of a statement, keywords are case-insensitive.
IsSelectStatement(sql) == StartsWith(Lower(LStrip(sql)), <<"s", "e", "l", "e", "c", "t">>)
WritesRow(sql) == StartsWith(Lower(LStrip(sql)), <<"i", "n", "s", "e", "r", "t">>)

\* ------------------------------------------------------------- driver
NewConn == [alive |-> TRUE, autocommit |-> FALSE, pending |-> 0]
NoConn == [alive |-> FALSE, autocommit |-> FALSE, pending |-> 0]

\* driver.connect(**params): a new connection object
DrvConnect(w) ==
    IF ~Ok(w) THEN w
    ELSE IF w.nconn >= MaxConns THEN Raise(w, OutOfBounds)
    ELSE Return(Log([w EXCEPT !.nconn = @ + 1, !.drv[w.nconn + 1] = NewConn],
                    "connect", w.nconn + 1, <<>>), w.nconn + 1)

\* connection.ping(reconnect=True)
DrvPing(w, c) == IF ~Ok(w) THEN w ELSE Log(w, "ping", c, <<>>)

\* connection.commit(): the pending rows become durable, or the call fails
DrvCommit(w, c) ==
    IF ~Ok(w) THEN w
    ELSE IF w.fault = "commit" THEN Raise(Log(w, "commit", c, <<>>), LostConnection)
    ELSE [Log(w, "commit", c, <<>>) EXCEPT !.durable = @ + w.drv[c].pending,
                                          !.drv[c].pending = 0]

\* connection.rollback(): the pending rows are dropped
DrvRollback(w, c) ==
    IF ~Ok(w) THEN w ELSE [Log(w, "rollback", c, <<>>) EXCEPT !.drv[c].pending = 0]

\* connection.close(): the server drops what was not committed
DrvClose(w, c) ==
    IF ~Ok(w) THEN w
    ELSE [Log(w, "close", c, <<>>) EXCEPT !.drv[c].alive = FALSE, !.drv[c].pending = 0]

\* cursor.execute(sql, params): a row written is pending until commit,
\* unless the connection is in autocommit mode
DrvExecute(w, c, sql) ==
    IF ~Ok(w) THEN w
    ELSE IF w.fault = "execute" THEN Raise(Log(w, "execute", c, sql), ProgrammingError)
    ELSE IF w.fault = "lost" THEN Raise(Log(w, "execute", c, sql), LostConnection)
    ELSE IF ~WritesRow(sql) THEN Log(w, "execute", c, sql)
    ELSE IF w.durable + w.drv[c].pending >= MaxRows THEN Raise(w, OutOfBounds)
    ELSE IF w.drv[c].autocommit THEN [Log(w, "execute", c, sql) EXCEPT !.durable = @ + 1]
    ELSE [Log(w, "execute", c, sql) EXCEPT !.drv[c].pending = @ + 1]

\* connection.get_autocommit() / connection.autocommit(auto)
DrvGetAutocommit(w, c) ==
    IF ~Ok(w) THEN w ELSE Return(Log(w, "get_autocommit", c, <<>>), w.drv[c].autocommit)
DrvSetAutocommit(w, c, auto) ==
    IF ~Ok(w) THEN w
    ELSE [Log(w, "autocommit", c, IF auto THEN <<"1">> ELSE <<"0">>) EXCEPT !.drv[c].autocommit = auto]

\* ------------------------------------------------------------- _ConnectionState
FreshState == [closed |-> TRUE, conn |-> None, ctx |-> <<>>, transactions |-> <<>>]

\* a reset that drops the connection and keeps the two stacks
reset_keeps_stacks(w) ==
    IF ~Ok(w) THEN w ELSE [w EXCEPT !.s.closed = TRUE, !.s.conn = None]

\* _ConnectionState.reset
reset(w) == IF ~Ok(w) THEN w ELSE [w EXCEPT !.s = FreshState]

\* _ConnectionState.set_connection
set_connection(w, c) ==
    IF ~Ok(w) THEN w
    ELSE [w EXCEPT !.s = [closed |-> FALSE, conn |-> c, ctx |-> <<>>, transactions |-> <<>>]]

\* a liveness check that gives the connection up
closed_resets(w) == IF ~Ok(w) \/ w.s.closed THEN w ELSE reset(DrvPing(w, w.s.conn))

\* _ConnectionState.closed (the property): an open state pings the driver
\* and answers with the flag; the value read is w.s.closed
closed(w) == IF ~Ok(w) \/ w.s.closed THEN w ELSE DrvPing(w, w.s.conn)

\* ------------------------------------------------------------- DBApi
\* DBApi.__init__: thread_safe=True gives every thread its own state
\* (_ConnectionLocal) and a real lock; otherwise one shared state and a
\* lock that does nothing
thread_safe == TRUE
autoconnect == TRUE
\* the one _ConnectionState of a facade built with thread_safe=False
SharedState(t) == 1
Slot(t) == IF thread_safe THEN t ELSE SharedState(t)

\* `with self._lock:`. threading.Lock is not reentrant: taking it while it
\* is held (by this thread, or by one that will never release it) never
\* returns.
acquire(w) ==
    IF ~Ok(w) \/ ~thread_safe THEN w
    ELSE IF w.lock # 0 THEN Raise(w, Stuck)
    ELSE [w EXCEPT !.lock = w.me]
release(w) == IF w.exc = Stuck \/ ~thread_safe THEN w ELSE [w EXCEPT !.lock = 0]

in_transaction(w) == w.s.transactions # <<>>
transaction_depth(w) == Len(w.s.transactions)

\* DBApi.is_closed: reads the closed property; the value is w.s.closed
is_closed(w) == closed(w)

\* bool(conn): a connection object of the driver is true, None is not
bool(conn) == conn # None

\* `conn or self._connect()`
new_conn(w, conn) ==
    IF ~Ok(w) THEN w
    ELSE IF bool(conn) THEN Return(w, conn)
    ELSE DrvConnect(w)

connect_new(w) == IF ~Ok(w) THEN w ELSE Return(set_connection(w, w.ret), TRUE)

connect_open(w, reuse_if_open, conn) ==
    IF ~Ok(w) THEN w
    ELSE IF ~w.s.closed
    THEN IF reuse_if_open THEN Return(w, FALSE)
         ELSE Raise(w, Exc("OperationalError", "Connection already opened."))
    ELSE connect_new(new_conn(reset(w), conn))

\* connect() without its test of `deferred`
connect_locked_undeferred(w, reuse_if_open, conn) ==
    IF ~Ok(w) THEN w ELSE connect_open(closed(w), reuse_if_open, conn)

connect_locked(w, reuse_if_open, conn) ==
    IF ~Ok(w) THEN w
    ELSE IF w.deferred
    THEN Raise(w, Exc("InterfaceError", "database must be initialized"))
    ELSE connect_open(closed(w), reuse_if_open, conn)

\* DBApi.connect(reuse_if_open, conn)
connect(w, reuse_if_open, conn) == release(connect_locked(acquire(w), reuse_if_open, conn))

close_open(w) ==
    IF ~Ok(w) THEN w
    ELSE IF ~w.s.closed THEN Return(reset(DrvClose(w, w.s.conn)), TRUE)
    ELSE Return(reset(w), FALSE)

\* close() without its test of in_transaction()
close_locked_unguarded(w) ==
    IF ~Ok(w) THEN w
    ELSE IF w.deferred
    THEN Raise(w, Exc("InterfaceError", "database must be initialized"))
    ELSE close_open(closed(w))

close_locked(w) ==
    IF ~Ok(w) THEN w
    ELSE IF w.deferred
    THEN Raise(w, Exc("InterfaceError", "database must be initialized"))
    ELSE IF in_transaction(w)
    THEN Raise(w, Exc("OperationalError", "close while transaction is open"))
    ELSE close_open(closed(w))

\* DBApi.close
close(w) == release(close_locked(acquire(w)))

\* `if self.is_closed(): self.connect()`, after is_closed() has left w
connect_if_closed(w) == IF Ok(w) /\ w.s.closed THEN connect(w, FALSE, None) ELSE w

\* DBApi.conn (the property) and DBApi.connection
conn_value(w) == IF Ok(w) THEN Return(w, w.s.conn) ELSE w
conn_property(w) == conn_value(connect_if_closed(is_closed(w)))

\* DBApi.init(conn, **config)
close_if_open(w) == IF Ok(w) /\ ~w.s.closed THEN close(w) ELSE w
init_deferred(w) ==
    IF Ok(w) THEN [w EXCEPT !.deferred = ~bool(w.ret)] ELSE w
init(w, conn) ==
    init_deferred(conn_property(connect(close_if_open(is_closed(w)), FALSE, conn)))

\* DBApi.push_transaction / pop_transaction
push_transaction(w) ==
    IF ~Ok(w) THEN w
    ELSE IF Len(w.s.transactions) >= MaxDepth THEN Raise(w, OutOfBounds)
    ELSE [w EXCEPT !.s.transactions = Append(@, "transaction")]

pop_transaction(w) ==
    IF ~Ok(w) THEN w
    ELSE IF w.s.transactions = <<>> THEN Raise(w, Exc("IndexError", "pop from empty list"))
    ELSE [w EXCEPT !.s.transactions = SubSeq(@, 1, Len(@) - 1)]

\* DBApi.begin
begin(w) == connect_if_closed(is_closed(w))

\* DBApi.commit / DBApi.rollback: self._state.conn.commit() / .rollback()
commit(w) ==
    IF ~Ok(w) THEN w
    ELSE IF w.s.conn = None THEN Raise(w, Exc("AttributeError", "NoneType.commit"))
    ELSE DrvCommit(w, w.s.conn)

rollback(w) ==
    IF ~Ok(w) THEN w
    ELSE IF w.s.conn = None THEN Raise(w, Exc("AttributeError", "NoneType.rollback"))
    ELSE DrvRollback(w, w.s.conn)

\* DBApi.cursor
cursor_open(w) ==
    IF ~Ok(w) \/ ~w.s.closed THEN w
    ELSE IF autoconnect THEN connect(w, FALSE, None)
    ELSE Raise(w, Exc("InterfaceError", "database connection not opened"))
cursor(w) == cursor_open(is_closed(w))

\* BaseError.__init__(message="", subcode, status, *args): the first
\* argument is the message, the second and third become subcode and status,
\* and Exception.__init__ gets the message and what follows the third
BaseError(type, args) ==
    [type |-> type, driver |-> FALSE,
     args |-> IF args = <<>> THEN <<"">> ELSE <<args[1]>> \o SubSeq(args, 4, Len(args))]

\* ExceptionWrapper.__exit__: an exception whose class is named in
\* EXCEPTIONS is replaced by the porm class of that name, built from the
\* arguments of the exception; any other passes through
EXCEPTIONS == {"DatabaseError", "InterfaceError", "OperationalError"}
exception_wrapper(w) ==
    IF w.exc.type \in EXCEPTIONS THEN Raise(w, BaseError(w.exc.type, w.exc.args)) ELSE w

\* DBApi.execute_sql(sql, params, commit). commitArg is "SENTINEL" (the
\* default), "True" or "False".
SENTINEL == "SENTINEL"
default_commit(w, sql) ==
    IF in_transaction(w) THEN FALSE
    ELSE ~StartsWith(Lower(Prefix(sql, 6)), <<"s", "e", "l", "e", "c", "t">>)
commit_flag(w, sql, commitArg) ==
    IF commitArg = SENTINEL THEN default_commit(w, sql) ELSE commitArg = "True"

\* cursor.execute(sql, params or ()) on the cursor obtained; w.aux tells
\* whether the try block was entered
execute_try(w, sql) ==
    IF ~Ok(w) THEN [w EXCEPT !.aux = "no cursor"]
    ELSE [DrvExecute(w, w.s.conn, sql) EXCEPT !.aux = "cursor"]

\* execute_sql's handler rolling back whatever autorollback says
execute_done_always_rollback(w, do_commit) ==
    IF Ok(w) THEN IF do_commit /\ ~in_transaction(w) THEN commit(w) ELSE w
    ELSE IF Fatal(w) \/ w.aux = "no cursor" THEN w
    ELSE IF ~in_transaction(w) THEN Reraise(rollback(Cleared(w)), w.exc)
    ELSE w

\* except Exception: the rollback, then the bare raise; else: the commit
execute_done(w, do_commit) ==
    IF Ok(w) THEN IF do_commit /\ ~in_transaction(w) THEN commit(w) ELSE w
    ELSE IF Fatal(w) \/ w.aux = "no cursor" THEN w
    ELSE IF w.autorollback /\ ~in_transaction(w) THEN Reraise(rollback(Cleared(w)), w.exc)
    ELSE w

execute_sql(w, sql, commitArg) ==
    IF ~Ok(w) THEN w
    ELSE exception_wrapper(execute_done(execute_try(cursor(w), sql),
                                        commit_flag(w, sql, commitArg)))
\* ------------------------------------------------------------- _transaction
\* _transaction._begin: db.begin()
transaction_begin(w) == begin(w)

begin_if(w, with_begin) == IF Ok(w) /\ with_begin THEN transaction_begin(w) ELSE w

\* _transaction.commit(begin) / _transaction.rollback(begin)
transaction_commit(w, with_begin) == begin_if(commit(w), with_begin)
transaction_rollback(w, with_begin) == begin_if(rollback(w), with_begin)

\* _transaction.__enter__
begin_if_outermost(w) ==
    IF Ok(w) /\ transaction_depth(w) = 0 THEN transaction_begin(w) ELSE w
transaction_enter(w) == push_transaction(begin_if_outermost(w))

\* a handler that re-raises without rolling back
commit_or_reraise(w) == w

\* the inner try of _transaction.__exit__: `except Exception: rollback; raise`
commit_or_rollback(w) ==
    IF Caught(w) THEN Reraise(transaction_rollback(Cleared(w), FALSE), w.exc) ELSE w

transaction_exit_try(w, raised) ==
    IF raised THEN transaction_rollback(w, FALSE)
    ELSE IF transaction_depth(w) = 1 THEN commit_or_rollback(transaction_commit(w, FALSE))
    ELSE w

\* `finally: self.db.pop_transaction()`
transaction_exit_finally(w) ==
    IF Fatal(w) THEN w ELSE Reraise(pop_transaction(Cleared(w)), w.exc)

\* _transaction.__exit__; raised says whether the block raised
transaction_exit(w, raised) ==
    IF ~Ok(w) THEN w ELSE transaction_exit_finally(transaction_exit_try(w, raised))

\* ------------------------------------------------------------- _savepoint
\* the attribute `quote` that _savepoint.__init__ reads from the facade:
\* neither DBApi nor MyDBApi defines it
quote_defined == FALSE

SAVEPOINT(sid) == <<"S", "A", "V", "E", "P", "O", "I", "N", "T", " ", sid>>
RELEASE_SAVEPOINT(sid) == <<"R", "E", "L", "E", "A", "S", "E", " ", sid>>
ROLLBACK_TO_SAVEPOINT(sid) == <<"R", "O", "L", "L", "B", "A", "C", "K", " ", "T", "O", " ", sid>>

\* _savepoint.__init__: returns the savepoint's sid
savepoint_init(w) ==
    IF ~Ok(w) THEN w
    ELSE IF quote_defined THEN Return(w, "s1")
    ELSE Raise(w, Exc("AttributeError", "quote"))

\* _savepoint._begin / rollback / commit(begin)
savepoint_begin(w, sid) == execute_sql(w, SAVEPOINT(sid), SENTINEL)
savepoint_rollback(w, sid) == execute_sql(w, ROLLBACK_TO_SAVEPOINT(sid), SENTINEL)
savepoint_begin_if(w, sid, with_begin) ==
    IF Ok(w) /\ with_begin THEN savepoint_begin(w, sid) ELSE w
savepoint_commit(w, sid, with_begin) ==
    savepoint_begin_if(execute_sql(w, RELEASE_SAVEPOINT(sid), SENTINEL), sid, with_begin)

\* _savepoint.__enter__: nothing is pushed on the transaction stack
savepoint_enter(w, sid) == savepoint_begin(w, sid)

release_or_rollback(w, sid) ==
    IF Caught(w) THEN Reraise(savepoint_rollback(Cleared(w), sid), w.exc) ELSE w

\* _savepoint.__exit__
savepoint_exit(w, sid, raised) ==
    IF ~Ok(w) THEN w
    ELSE IF raised THEN savepoint_rollback(w, sid)
    ELSE release_or_rollback(savepoint_commit(w, sid, FALSE), sid)

\* ------------------------------------------------------------- _atomic
\* the _helper attribute of an _atomic: absent until __enter__ has set it
NoHelper == [kind |-> "none", sid |-> ""]
Helper(kind, sid) == [kind |-> kind, sid |-> sid]

atomic_enter_savepoint(w) ==
    IF ~Ok(w) THEN Return(w, NoHelper)
    ELSE Return(savepoint_enter(w, w.ret), Helper("savepoint", w.ret))

\* _atomic.__enter__: returns (in w.ret) the helper it has stored
atomic_enter(w) ==
    IF ~Ok(w) THEN w
    ELSE IF transaction_depth(w) = 0
    THEN Return(transaction_enter(w), Helper("transaction", ""))
    ELSE atomic_enter_savepoint(savepoint_init(w))

\* _atomic.__exit__
atomic_exit(w, helper, raised) ==
    IF ~Ok(w) THEN w
    ELSE IF helper.kind = "transaction" THEN transaction_exit(w, raised)
    ELSE IF helper.kind = "savepoint" THEN savepoint_exit(w, helper.sid, raised)
    ELSE Raise(w, Exc("AttributeError", "_helper"))

\* ------------------------------------------------------------- DBApi scopes
\* `self._state.ctx.append(ctx)`: the entry is on the stack before it is
\* entered
ctx_append(w) ==
    IF ~Ok(w) THEN Return(w, Helper("unappended", ""))
    ELSE IF Len(w.s.ctx) >= MaxDepth THEN Return(Raise(w, OutOfBounds), Helper("unappended", ""))
    ELSE [w EXCEPT !.s.ctx = Append(@, NoHelper)]

\* the appended _atomic keeps the helper its __enter__ stored
ctx_set_helper(w) ==
    IF Fatal(w) \/ w.ret.kind = "unappended" \/ w.s.ctx = <<>> THEN w
    ELSE [w EXCEPT !.s.ctx[Len(w.s.ctx)] = w.ret]

\* DBApi.__enter__
db_enter(w) == ctx_set_helper(atomic_enter(ctx_append(connect_if_closed(is_closed(w)))))

ctx_pop(w) == [w EXCEPT !.s.ctx = SubSeq(@, 1, Len(@) - 1)]
ctx_top(w) == w.s.ctx[Len(w.s.ctx)]

close_if_no_ctx(w) == IF Ok(w) /\ w.s.ctx = <<>> THEN close(w) ELSE w

\* `finally: if not self._state.ctx: self.close()`
db_exit_finally(w) ==
    IF Fatal(w) THEN w ELSE Reraise(close_if_no_ctx(Cleared(w)), w.exc)

\* DBApi.__exit__
db_exit(w, raised) ==
    IF ~Ok(w) THEN w
    ELSE IF w.s.ctx = <<>> THEN Raise(w, Exc("IndexError", "pop from empty list"))
    ELSE db_exit_finally(atomic_exit(ctx_pop(w), ctx_top(w), raised))

\* ------------------------------------------------------------- sessions
\* DBApi.session_start: transaction().__enter__() under the lock
session_start(w) == release(transaction_enter(acquire(w)))

session_commit_popped(w) == transaction_commit(w, in_transaction(w))
session_commit_locked(w) ==
    IF ~Ok(w) THEN w
    ELSE IF w.s.transactions = <<>> THEN Return(w, FALSE)
    ELSE Return(session_commit_popped(pop_transaction(w)), TRUE)

\* DBApi.session_commit
session_commit(w) == release(session_commit_locked(acquire(w)))

session_rollback_popped(w) == transaction_rollback(w, in_transaction(w))
session_rollback_locked(w) ==
    IF ~Ok(w) THEN w
    ELSE IF w.s.transactions = <<>> THEN Return(w, FALSE)
    ELSE Return(session_rollback_popped(pop_transaction(w)), TRUE)

\* DBApi.session_rollback
session_rollback(w) == release(session_rollback_locked(acquire(w)))
\* ------------------------------------------------------------- MyDBApi
\* Python's `text % arg`. The conversion specifiers of a text, in order:
\* "%s" is positional ("pos"), "%(k)s" names the key k.
RECURSIVE Specifiers(_)
Specifiers(text) ==
    IF Len(text) < 2 THEN <<>>
    ELSE IF text[1] = "%" /\ text[2] = "s" THEN <<"pos">> \o Specifiers(SubSeq(text, 3, Len(text)))
    ELSE IF text[1] = "%" /\ text[2] = "(" /\ Len(text) >= 5 /\ text[4] = ")" /\ text[5] = "s"
         THEN <<text[3]>> \o Specifiers(SubSeq(text, 6, Len(text)))
    ELSE Specifiers(Tail(text))

Positional(text) == Cardinality({i \in 1..Len(Specifiers(text)) : Specifiers(text)[i] = "pos"})
Named(text) == {Specifiers(text)[i] : i \in 1..Len(Specifiers(text))} \ {"pos"}

\* The arguments a statement is given: None, a tuple of n values, a dict
\* with the given keys, or a list of n rows (insert_many)
PNone == [kind |-> "None", n |-> 0, keys |-> {}]
PTuple(n) == [kind |-> "tuple", n |-> n, keys |-> {}]
PDict(keys) == [kind |-> "dict", n |-> 0, keys |-> keys]
PList(n) == [kind |-> "list", n |-> n, keys |-> {}]

\* The exception `text % arg` raises, or NoExc. A dict or a list is taken
\* as the mapping; anything but a tuple is otherwise one argument.
FormatError(text, arg) ==
    CASE arg.kind = "tuple" ->
            IF Named(text) # {} THEN Exc("TypeError", "format requires a mapping")
            ELSE IF Positional(text) > arg.n THEN Exc("TypeError", "not enough arguments for format string")
            ELSE IF Positional(text) < arg.n THEN Exc("TypeError", "not all arguments converted")
            ELSE NoExc
      [] arg.kind = "dict" ->
            IF ~(Named(text) \subseteq arg.keys) THEN Exc("KeyError", "key")
            ELSE IF Positional(text) > 1 THEN Exc("TypeError", "not enough arguments for format string")
            ELSE NoExc
      [] arg.kind = "list" ->
            IF Named(text) # {} THEN Exc("TypeError", "list indices must be integers")
            ELSE IF Positional(text) > 1 THEN Exc("TypeError", "not enough arguments for format string")
            ELSE NoExc
      [] OTHER ->
            IF Named(text) # {} THEN Exc("TypeError", "format requires a mapping")
            ELSE IF Positional(text) > 1 THEN Exc("TypeError", "not enough arguments for format string")
            ELSE IF Positional(text) < 1 THEN Exc("TypeError", "not all arguments converted")
            ELSE NoExc

\* MyDBApi._log(sql, param, level): exec_sql = sql % param, then logs it
log_(w, sql, param) ==
    IF ~Ok(w) \/ FormatError(sql, param) = NoExc THEN w ELSE Raise(w, FormatError(sql, param))

\* `except Exception as ex: self._log(sql, param, level='error'); raise ex`
log_and_raise(w, sql, param) ==
    IF Caught(w) THEN Reraise(log_(Cleared(w), sql, param), w.exc) ELSE w

\* query_many, query_one, insert_one, insert_many, delete: execute_sql
\* (and the fetch), logged and raised again when it fails
query_many(w, sql, param) == log_and_raise(execute_sql(w, sql, SENTINEL), sql, param)
query_one(w, sql, param) == log_and_raise(execute_sql(w, sql, SENTINEL), sql, param)
insert_one(w, sql, param) == log_and_raise(execute_sql(w, sql, SENTINEL), sql, param)
insert_many(w, sql, param) == log_and_raise(execute_sql(w, sql, SENTINEL), sql, param)
delete(w, sql, param) == log_and_raise(execute_sql(w, sql, SENTINEL), sql, param)

\* MyDBApi._get_autocommit(conn) / _set_autocommit(conn, auto), conn being
\* the value the conn property has just returned in w.ret
get_autocommit(w) == IF ~Ok(w) THEN w ELSE DrvGetAutocommit(w, w.ret)
set_autocommit(w, auto) == IF ~Ok(w) THEN w ELSE DrvSetAutocommit(w, w.ret, auto)

\* `finally: self._set_autocommit(self.conn, _auto)`
restore_autocommit(w, auto) ==
    IF Fatal(w) THEN w ELSE Reraise(set_autocommit(conn_property(Cleared(w)), auto), w.exc)

\* `except Exception as ex: _log(str(ex), {}); session_rollback(); raise ex`
\* when the part before the yield raised; then the finally block
start_transaction_except(w, auto) ==
    IF Caught(w) THEN restore_autocommit(Reraise(session_rollback(Cleared(w)), w.exc), auto)
    ELSE IF Ok(w) THEN [w EXCEPT !.aux = auto]
    ELSE w

start_transaction_try(w) ==
    IF ~Ok(w) THEN w
    ELSE start_transaction_except(
             conn_property(session_start(set_autocommit(conn_property(w), FALSE))), w.ret)

\* MyDBApi.start_transaction up to its yield: w.ret is the connection
\* yielded, w.aux the autocommit mode found (_auto)
start_transaction_enter(w) == start_transaction_try(get_autocommit(conn_property(w)))

\* `except Exception as ex: self._log(str(ex), {}, level='error');
\* self.session_rollback()`; msg is str(ex), which _log formats with {}
start_transaction_handler(w, msg) ==
    IF ~Ok(w) THEN w
    ELSE IF FormatError(msg, PDict({})) # NoExc THEN log_(w, msg, PDict({}))
    ELSE session_rollback(w)

session_end(w, raised) ==
    IF raised THEN start_transaction_handler(w, <<>>) ELSE session_commit(w)

\* MyDBApi.start_transaction after its yield: the block ended normally or
\* by an exception (raised); auto is the autocommit mode found on entry.
\* The message of the block's exception is taken to hold no "%".
start_transaction_exit(w, auto, raised) ==
    IF ~Ok(w) THEN w ELSE restore_autocommit(session_end(w, raised), auto)


\* MyDBApi.start_transaction after its yield, the block having raised an
\* exception whose text is msg
start_transaction_raised(w, auto, msg) ==
    IF ~Ok(w) THEN w ELSE restore_autocommit(start_transaction_handler(w, msg), auto)

\* ------------------------------------------------------------- DBModel
\* MyDBApi(config=..., t=t): a facade of its own, with a state and a lock
\* of its own, initialised on the connection t
MyDBApi_new(w, t) ==
    init([w EXCEPT !.s = FreshState, !.deferred = FALSE, !.autorollback = FALSE,
                   !.lock = 0], t)

\* what a facade that is dropped after the call leaves behind: what it did
\* to the driver, and the exception
dropped(w, r) ==
    [w EXCEPT !.drv = r.drv, !.nconn = r.nconn, !.durable = r.durable,
              !.calls = r.calls, !.exc = r.exc]

\* DBModel.insert(t=t): mydb = MyDBApi(config=..., t=t); mydb.insert_one(sql, param)
DBModel_insert(w, t, sql, param) == dropped(w, insert_one(MyDBApi_new(w, t), sql, param))
\* ------------------------------------------------------------- parsers/mysql.py
\* Python values: None, an int, a str, or a list/tuple of such values
VNone == [t |-> "none", i |-> 0, s |-> "", items |-> <<>>]
VInt(n) == [t |-> "int", i |-> n, s |-> "", items |-> <<>>]
VStr(x) == [t |-> "str", i |-> 0, s |-> x, items |-> <<>>]
VSeq(items) == [t |-> "seq", i |-> 0, s |-> "", items |-> items]

\* bool(v)
Truth(v) ==
    CASE v.t = "none" -> FALSE
      [] v.t = "int" -> v.i # 0
      [] v.t = "str" -> v.s # ""
      [] OTHER -> v.items # <<>>

\* str(v) of a scalar
Str(v) ==
    CASE v.t = "none" -> "None"
      [] v.t = "int" -> ToString(v.i)
      [] OTHER -> v.s

\* The second element of a (value, operator) term: a str, kept as its
\* characters, or a tuple of one-character strings
OStr(chars) == [t |-> "str", chars |-> chars]
OTuple(chars) == [t |-> "tuple", chars |-> chars]

\* A term of the mapping: a bare value, or a (value, operator) pair
Scalar(v) == [pair |-> FALSE, v |-> v, op |-> OStr(<<>>)]
Pair(v, op) == [pair |-> TRUE, v |-> v, op |-> op]

\* ''.join(chars) and sep.join(strings)
RECURSIVE Join(_)
Join(chars) == IF chars = <<>> THEN "" ELSE chars[1] \o Join(Tail(chars))
RECURSIVE JoinWith(_, _)
JoinWith(strs, sep) ==
    IF strs = <<>> THEN ""
    ELSE IF Len(strs) = 1 THEN strs[1]
    ELSE strs[1] \o sep \o JoinWith(Tail(strs), sep)

\* str.strip()
RECURSIVE RStrip(_)
RStrip(s) == IF s # <<>> /\ s[Len(s)] \in Whitespace THEN RStrip(SubSeq(s, 1, Len(s) - 1)) ELSE s
Strip(s) == RStrip(LStrip(s))

\* sql_params[k] = v on a dict kept in insertion order
HasKey(param, k) == \E i \in 1..Len(param) : param[i].k = k
SetItem(param, k, v) ==
    IF HasKey(param, k)
    THEN [i \in 1..Len(param) |-> IF param[i].k = k THEN [k |-> k, v |-> v] ELSE param[i]]
    ELSE Append(param, [k |-> k, v |-> v])
RECURSIVE SetItems(_, _)
SetItems(param, kvs) ==
    IF kvs = <<>> THEN param ELSE SetItems(SetItem(param, kvs[1].k, kvs[1].v), Tail(kvs))

\* The locals of parse while it loops: the exception raised, term_sqls,
\* sql_params
Parsing0 == [exc |-> NoExc, sqls |-> <<"1=1">>, param |-> <<>>]

\* `if term_sql: term_sqls.append(term_sql)`, after the sql_params[k] = v
\* of kvs
parse_append(acc, term_sql, kvs) ==
    [acc EXCEPT !.sqls = IF term_sql = "" THEN @ ELSE Append(@, term_sql),
                !.param = SetItems(@, kvs)]

\* parse_in without the branch for an empty sequence
parse_in_always_clause(acc, fname, f_fname, operator, items) ==
    parse_append(acc,
        fname \o " " \o operator \o " (" \o
        JoinWith([idx \in 1..Len(items) |-> "%(" \o f_fname \o ToString(idx - 1) \o ")s"], ", ")
        \o ")",
        [idx \in 1..Len(items) |-> [k |-> f_fname \o ToString(idx - 1), v |-> items[idx]]])

\* parse, operator IN / NOT IN (lines 142-156)
parse_in(acc, fname, f_fname, operator, items) ==
    parse_append(acc,
        IF items = <<>> THEN "1<>1"
        ELSE fname \o " " \o operator \o " (" \o
             JoinWith([idx \in 1..Len(items) |-> "%(" \o f_fname \o ToString(idx - 1) \o ")s"], ", ")
             \o ")",
        [idx \in 1..Len(items) |-> [k |-> f_fname \o ToString(idx - 1), v |-> items[idx]]])

\* LIKE keywords bound under keys without the LKE_ prefix
parse_like_unprefixed_keys(acc, fname, operator, items) ==
    parse_append(acc,
        JoinWith([idx \in 1..Len(items) |->
                     fname \o " " \o operator \o " %(LKE_" \o ToString(idx - 1) \o "_" \o fname \o ")s"],
                 " AND "),
        [idx \in 1..Len(items) |->
            [k |-> ToString(idx - 1) \o "_" \o fname,
             v |-> VStr("%" \o Str(items[idx]) \o "%")]])

\* parse, operator LIKE on a sequence of keywords (lines 157-166)
parse_like(acc, fname, operator, items) ==
    parse_append(acc,
        JoinWith([idx \in 1..Len(items) |->
                     fname \o " " \o operator \o " %(LKE_" \o ToString(idx - 1) \o "_" \o fname \o ")s"],
                 " AND "),
        [idx \in 1..Len(items) |->
            [k |-> "LKE_" \o ToString(idx - 1) \o "_" \o fname,
             v |-> VStr("%" \o Str(items[idx]) \o "%")]])

\* the operator a boundary character stands for, "" when it is not one
LeftOp(c) == IF c = "(" THEN ">" ELSE IF c = "[" THEN ">=" ELSE ""
RightOp(c) == IF c = ")" THEN "<" ELSE IF c = "]" THEN "<=" ELSE ""

\* one side of a range (lines 173-183 and 184-194): op is LeftOp or
\* RightOp of the boundary character
parse_bound(acc, fname, f_fname, operator, val, op) ==
    IF acc.exc # NoExc \/ ~Truth(val) THEN acc
    ELSE IF op = "" THEN [acc EXCEPT !.exc = Exc("OperationalError", "Invalid Operator: " \o operator)]
    ELSE [acc EXCEPT !.sqls = Append(@, fname \o op \o "%(" \o f_fname \o op \o ")s"),
                     !.param = SetItem(@, f_fname \o op, val)]

\* `term_sql = ' AND '.join(range_term_sql)`, appended if not empty; sides
\* are the locals after both bounds, with range_term_sql in .sqls
parse_range_join(acc, sides) ==
    IF sides.exc # NoExc THEN [acc EXCEPT !.exc = sides.exc]
    ELSE [acc EXCEPT !.sqls = IF sides.sqls = <<>> THEN @ ELSE Append(@, JoinWith(sides.sqls, " AND ")),
                     !.param = sides.param]

\* parse, a range (lines 167-195); operator is the boundary, as characters
parse_range(acc, fname, f_fname, operator, items) ==
    IF items = <<>> THEN [acc EXCEPT !.exc = Exc("IndexError", "tuple index out of range")]
    ELSE IF operator = <<>> THEN [acc EXCEPT !.exc = Exc("IndexError", "string index out of range")]
    ELSE IF Len(items) < 2 THEN [acc EXCEPT !.exc = Exc("IndexError", "tuple index out of range")]
    ELSE IF Len(operator) < 2 THEN [acc EXCEPT !.exc = Exc("IndexError", "string index out of range")]
    ELSE parse_range_join(acc,
            parse_bound(
                parse_bound([acc EXCEPT !.sqls = <<>>], fname, f_fname, Join(operator),
                            items[1], LeftOp(operator[1])),
                fname, f_fname, Join(operator), items[2], RightOp(operator[2])))

\* parse, a (value, operator) term after `operator = term[1].strip()`
\* (lines 138-202)
parse_pair(acc, fname, f_fname, operator, v) ==
    IF v.t = "seq"
    THEN IF Join(operator) \in {"IN", "NOT IN"} THEN parse_in(acc, fname, f_fname, Join(operator), v.items)
         ELSE IF Join(operator) = "LIKE" THEN parse_like(acc, fname, Join(operator), v.items)
         ELSE parse_range(acc, fname, f_fname, operator, v.items)
    ELSE IF v.t = "none" THEN acc
    ELSE parse_append(acc, fname \o " " \o Join(operator) \o " %(" \o f_fname \o ")s",
                      <<[k |-> f_fname, v |-> v]>>)

\* parse_term without `if term is None: continue` for a bare value
parse_term_binds_none(acc, fname, f_fname, term) ==
    IF term.pair
    THEN IF term.op.t # "str"
         THEN [acc EXCEPT !.exc = Exc("AttributeError", "'tuple' object has no attribute 'strip'")]
         ELSE parse_pair(acc, fname, f_fname, Strip(term.op.chars), term.v)
    ELSE parse_append(acc, fname \o "=%(" \o f_fname \o ")s", <<[k |-> f_fname, v |-> term.v]>>)

\* the body of parse's loop for one item of terms (lines 133-212); fname
\* is already prefixed with the table name
parse_term(acc, fname, f_fname, term) ==
    IF term.pair
    THEN IF term.op.t # "str"
         THEN [acc EXCEPT !.exc = Exc("AttributeError", "'tuple' object has no attribute 'strip'")]
         ELSE parse_pair(acc, fname, f_fname, Strip(term.op.chars), term.v)
    ELSE IF term.v.t = "none" THEN acc
    ELSE parse_append(acc, fname \o "=%(" \o f_fname \o ")s", <<[k |-> f_fname, v |-> term.v]>>)

\* parse's loop (line 132)
RECURSIVE parse_terms(_, _, _)
parse_terms(acc, tablename, terms) ==
    IF terms = <<>> \/ acc.exc # NoExc THEN acc
    ELSE parse_terms(
             parse_term(acc,
                        IF tablename # "" THEN tablename \o "." \o terms[1].fname ELSE terms[1].fname,
                        "fltr_" \o terms[1].fname, terms[1].term),
             tablename, Tail(terms))

Max(a, b) == IF a > b THEN a ELSE b

\* parse_result without the floors of size and page
parse_result_unfloored(acc, order_by, page, size) ==
    IF acc.exc # NoExc THEN [exc |-> acc.exc, filter |-> "", param |-> <<>>]
    ELSE [exc |-> NoExc,
          filter |-> JoinWith(acc.sqls, " AND ")
                     \o (IF order_by # "" THEN " ORDER BY " \o order_by ELSE "")
                     \o (IF page.t # "none" /\ size.t # "none"
                         THEN " LIMIT %(page_from)s, %(page_to)s" ELSE ""),
          param |-> IF page.t # "none" /\ size.t # "none"
                    THEN SetItem(SetItem(acc.param, "page_from", VInt((page.i - 1) * size.i)),
                                 "page_to", VInt(size.i))
                    ELSE acc.param]

\* parse after the loop: ORDER BY, LIMIT, the ParsedResult (lines 213-221)
parse_result(acc, order_by, page, size) ==
    IF acc.exc # NoExc THEN [exc |-> acc.exc, filter |-> "", param |-> <<>>]
    ELSE [exc |-> NoExc,
          filter |-> JoinWith(acc.sqls, " AND ")
                     \o (IF order_by # "" THEN " ORDER BY " \o order_by ELSE "")
                     \o (IF page.t # "none" /\ size.t # "none"
                         THEN " LIMIT %(page_from)s, %(page_to)s" ELSE ""),
          param |-> IF page.t # "none" /\ size.t # "none"
                    THEN SetItem(SetItem(acc.param, "page_from",
                                         VInt(Max(0, page.i - 1) * Max(1, size.i))),
                                 "page_to", VInt(Max(1, size.i)))
                    ELSE acc.param]

\* parse(tablename, order_by, page, size, **terms); "" stands for a
\* tablename or order_by of None
parse(tablename, order_by, page, size, terms) ==
    parse_result(parse_terms(Parsing0, tablename, terms), order_by, page, size)

\* ------------------------------------------------------------- parse_join
\* a str value given by its characters, for the code that looks at them
VText(chars) == [t |-> "str", i |-> 0, s |-> Join(chars), items |-> chars]

\* '{}'.format(operator): the text of a str, the repr of a tuple of strings
OpText(op) ==
    IF op.t = "str" THEN Join(op.chars)
    ELSE IF Len(op.chars) = 1 THEN "('" \o op.chars[1] \o "',)"
    ELSE "(" \o JoinWith([i \in 1..Len(op.chars) |-> "'" \o op.chars[i] \o "'"], ", ") \o ")"

\* the name of operator's type in the IndexError of operator[i]
IndexableName(op) == IF op.t = "str" THEN "string" ELSE "tuple"

\* term.startswith("\\") and term.endswith("\\")
IsRaw(v) == v.items # <<>> /\ v.items[1] = "\\" /\ v.items[Len(v.items)] = "\\"
NotBackslash(c) == c # "\\"
\* term.replace("\\", "")
Unquoted(v) == Join(SelectSeq(v.items, NotBackslash))

\* `term_sqls.append(term_sql)` (line 112), after the sql_params[k] = v of
\* kvs: parse_join appends whatever the term compiled to
join_append(acc, term_sql, kvs) ==
    [acc EXCEPT !.sqls = Append(@, term_sql), !.param = SetItems(@, kvs)]

\* parse_join, operator IN / NOT IN (lines 35-49)
join_in(acc, field_name, f_fname, operator, items) ==
    join_append(acc,
        IF items = <<>> THEN "1<>1"
        ELSE field_name \o " " \o operator \o " (" \o
             JoinWith([idx \in 1..Len(items) |-> "%(" \o f_fname \o ToString(idx - 1) \o ")s"], ", ")
             \o ")",
        [idx \in 1..Len(items) |-> [k |-> f_fname \o ToString(idx - 1), v |-> items[idx]]])

\* parse_join, operator LIKE on a sequence of keywords (lines 50-59): the
\* predicate is written on f_fname
join_like(acc, f_fname, operator, items) ==
    join_append(acc,
        JoinWith([idx \in 1..Len(items) |->
                     f_fname \o " " \o operator \o " %(joinfltrLKE_" \o ToString(idx - 1)
                     \o "_" \o f_fname \o ")s"],
                 " AND "),
        [idx \in 1..Len(items) |->
            [k |-> "joinfltrLKE_" \o ToString(idx - 1) \o "_" \o f_fname,
             v |-> VStr("%" \o Str(items[idx]) \o "%")]])

\* one side of a range (lines 66-76 and 77-87)
join_bound(acc, field_name, f_fname, operator, val, op) ==
    IF acc.exc # NoExc \/ ~Truth(val) THEN acc
    ELSE IF op = "" THEN [acc EXCEPT !.exc = Exc("OperationalError", "Invalid Operator: " \o operator)]
    ELSE [acc EXCEPT !.sqls = Append(@, field_name \o op \o "%(" \o f_fname \o op \o ")s"),
                     !.param = SetItem(@, f_fname \o op, val)]

\* `term_sql = ' AND '.join(range_term_sql)` (line 88), appended as it is
join_range_join(acc, sides) ==
    IF sides.exc # NoExc THEN [acc EXCEPT !.exc = sides.exc]
    ELSE [acc EXCEPT !.sqls = Append(@, JoinWith(sides.sqls, " AND ")), !.param = sides.param]

\* parse_join, a range (lines 60-88); operator is term[1] as given, a str
\* or a tuple of characters
join_range(acc, field_name, f_fname, operator, items) ==
    IF items = <<>> THEN [acc EXCEPT !.exc = Exc("IndexError", "tuple index out of range")]
    ELSE IF operator.chars = <<>>
    THEN [acc EXCEPT !.exc = Exc("IndexError", IndexableName(operator) \o " index out of range")]
    ELSE IF Len(items) < 2 THEN [acc EXCEPT !.exc = Exc("IndexError", "tuple index out of range")]
    ELSE IF Len(operator.chars) < 2
    THEN [acc EXCEPT !.exc = Exc("IndexError", IndexableName(operator) \o " index out of range")]
    ELSE join_range_join(acc,
            join_bound(
                join_bound([acc EXCEPT !.sqls = <<>>], field_name, f_fname, OpText(operator),
                           items[1], LeftOp(operator.chars[1])),
                field_name, f_fname, OpText(operator), items[2], RightOp(operator.chars[2])))

\* parse_join, a scalar (lines 91-100 and 102-111): None is skipped, a
\* text between backslashes is written into the clause as it is, anything
\* else is bound to f_fname in the predicate term_sql
join_scalar(acc, field_name, f_fname, v, term_sql) ==
    IF v.t = "none" THEN acc
    ELSE IF v.t # "str"
    THEN [acc EXCEPT !.exc = Exc("AttributeError", "'" \o v.t \o "' object has no attribute 'startswith'")]
    ELSE IF IsRaw(v) THEN join_append(acc, field_name \o "=" \o Unquoted(v), <<>>)
    ELSE join_append(acc, term_sql, <<[k |-> f_fname, v |-> v]>>)

\* the body of parse_join's loop for one item of terms (lines 28-112)
join_term(acc, field_name, f_fname, term) ==
    IF ~term.pair
    THEN join_scalar(acc, field_name, f_fname, term.v, field_name \o "=%(" \o f_fname \o ")s")
    ELSE IF term.v.t # "seq"
    THEN join_scalar(acc, field_name, f_fname, term.v,
                     field_name \o " " \o OpText(term.op) \o " %(" \o f_fname \o ")s")
    ELSE IF term.op.t = "str" /\ Join(term.op.chars) \in {"IN", "NOT IN"}
    THEN join_in(acc, field_name, f_fname, Join(term.op.chars), term.v.items)
    ELSE IF term.op.t = "str" /\ Join(term.op.chars) = "LIKE"
    THEN join_like(acc, f_fname, Join(term.op.chars), term.v.items)
    ELSE join_range(acc, field_name, f_fname, term.op, term.v.items)

\* join_terms with the parameter prefix of parse
RECURSIVE join_terms_base_prefix(_, _)
join_terms_base_prefix(acc, terms) ==
    IF terms = <<>> \/ acc.exc # NoExc THEN acc
    ELSE join_terms_base_prefix(join_term(acc, terms[1].fname, "fltr_" \o terms[1].fname, terms[1].term),
                                Tail(terms))

\* parse_join's loop (line 27)
RECURSIVE join_terms(_, _)
join_terms(acc, terms) ==
    IF terms = <<>> \/ acc.exc # NoExc THEN acc
    ELSE join_terms(join_term(acc, terms[1].fname, "joinfltr_" \o terms[1].fname, terms[1].term),
                    Tail(terms))

\* parse_join after the loop (lines 113-114)
join_result(acc) ==
    IF acc.exc # NoExc THEN [exc |-> acc.exc, filter |-> "", param |-> <<>>]
    ELSE [exc |-> NoExc, filter |-> JoinWith(acc.sqls, " AND "), param |-> acc.param]

\* parse_join(**terms)
parse_join(terms) == join_result(join_terms(Parsing0, terms))

\* ------------------------------------------------------------- orms/mysql.py
\* Operand and Relation, by member name
Operand(member) ==
    CASE member = "EQ" -> "="
      [] member = "NEQ" -> "<>"
      [] member = "GT" -> ">"
      [] member = "GTE" -> ">="
      [] member = "LT" -> "<"
      [] member = "LTE" -> "<="
      [] member = "IN" -> "IN"
      [] member = "NIN" -> "NOT IN"
      [] member = "LIKE" -> "LIKE"
      [] member = "NLIKE" -> "NOT LIKE"
Relation(member) == IF member = "AND" THEN "AND" ELSE "OR"

\* repr(v) of an element of a tuple and '{}'.format(v) of a value
Repr(v) == IF v.t = "str" THEN "'" \o v.s \o "'" ELSE Str(v)
Format(v) ==
    IF v.t # "seq" THEN Str(v)
    ELSE IF Len(v.items) = 1 THEN "(" \o Repr(v.items[1]) \o ",)"
    ELSE "(" \o JoinWith([i \in 1..Len(v.items) |-> Repr(v.items[i])], ", ") \o ")"

\* Condition._condition of a new Condition is None
NoCondition == [kind |-> "None"]
ConditionNode(field_name, operand, field_val) ==
    [kind |-> "node", field_name |-> field_name, operand |-> operand, field_val |-> field_val]
ConditionTree(left, relation, right) ==
    [kind |-> "tree", left |-> left, relation |-> relation, right |-> right]

\* str(c) of a ConditionNode, a ConditionTree or None
RECURSIVE str(_)
str(c) ==
    IF c.kind = "None" THEN "None"
    ELSE IF c.kind = "node" THEN c.field_name \o " " \o c.operand \o " " \o Format(c.field_val)
    ELSE "(" \o str(c.left) \o " " \o c.relation \o " " \o str(c.right) \o ")"

\* Condition._init and Condition._add with the default relation
Condition_init(right) ==
    ConditionTree(ConditionNode("1", Operand("EQ"), VText(<<"1">>)), Relation("AND"), right)
Condition_add(condition, node) ==
    IF condition.kind = "None" THEN Condition_init(node)
    ELSE ConditionTree(condition, Relation("AND"), node)

\* the Operand used by the method and_<name> and by the classmethod <name>
and_operand(name, equal) ==
    CASE name = "like" -> Operand("LIKE")
      [] name = "nlike" -> Operand("NLIKE")
      [] name = "eq" -> Operand("EQ")
      [] name = "neq" -> Operand("NEQ")
      [] name = "gt" -> IF equal THEN Operand("GTE") ELSE Operand("GT")
      [] name = "gte" -> Operand("GTE")
      [] name = "lt" -> IF equal THEN Operand("LTE") ELSE Operand("LT")
      [] name = "lte" -> Operand("LTE")
      [] name = "in_these" -> Operand("IN")
      [] name = "nin_these" -> Operand("IN")
classmethod_operand(name, equal) ==
    CASE name = "like" -> Operand("LIKE")
      [] name = "nlike" -> Operand("NLIKE")
      [] name = "eq" -> Operand("EQ")
      [] name = "neq" -> Operand("NEQ")
      [] name = "gt" -> IF equal THEN Operand("GTE") ELSE Operand("GT")
      [] name = "gte" -> Operand("GTE")
      [] name = "lt" -> IF equal THEN Operand("LTE") ELSE Operand("LT")
      [] name = "lte" -> Operand("LTE")
      [] name = "in_these" -> Operand("IN")
      [] name = "nin_these" -> Operand("NIN")

\* c.and_<name>(field_name, val[, equal]) on the tree of c, and
\* Condition.<name>(field_name, val[, equal])
and_method(condition, call) ==
    Condition_add(condition,
                  ConditionNode(call.field_name, and_operand(call.name, call.equal), call.val))
classmethod(call) ==
    ConditionNode(call.field_name, classmethod_operand(call.name, call.equal), call.val)

\* ------------------------------------------------------------- actions
\* the world thread t calls into, with the driver call that will fail
World(t, fault) ==
    [s |-> st[Slot(t)], deferred |-> deferred, autorollback |-> autorollback,
     lock |-> lock, me |-> t, drv |-> drv, nconn |-> nconn, durable |-> durable,
     fault |-> fault,
     calls |-> <<>>, exc |-> NoExc, ret |-> None, aux |-> FALSE]

NoCall == [th |-> 0, op |-> "", exc |-> NoExc, ret |-> "", calls |-> <<>>,
           sql |-> <<>>, param |-> PNone, flag |-> "", fault |-> "none"]
Call(t, op, fault) == [NoCall EXCEPT !.th = t, !.op = op, !.fault = fault]
Bool(b) == IF b THEN "True" ELSE "False"

\* what the caller gets back from the call, as text: call.ret names what
\* the operation returns ("bool"), "closed" is is_closed()'s answer
Returned(r, kind) ==
    IF kind = "closed" THEN Bool(r.s.closed)
    ELSE IF kind = "bool" /\ Ok(r) THEN Bool(r.ret)
    ELSE ""

\* The call returned, raised or hangs with outcome r: the thread's state,
\* the facade and the driver are as r leaves them; the caller's open
\* blocks are returned if it returned, raised if it raised
Store(t, r, call, returned, raised) ==
    /\ r.exc # OutOfBounds
    /\ st' = [st EXCEPT ![Slot(t)] = r.s]
    /\ deferred' = r.deferred
    /\ lock' = r.lock
    /\ drv' = r.drv
    /\ nconn' = r.nconn
    /\ durable' = r.durable
    /\ pc' = IF r.exc = Stuck THEN [pc EXCEPT ![t] = "blocked"] ELSE pc
    /\ scopes' = IF r.exc = Stuck THEN scopes
                 ELSE [scopes EXCEPT ![t] = IF Ok(r) THEN returned ELSE raised]
    /\ last' = [call EXCEPT !.exc = r.exc, !.calls = r.calls, !.ret = Returned(r, call.ret)]
    /\ UNCHANGED <<autorollback, pin, pout, cond>>

Scope(kind, helper, auto, c) == [kind |-> kind, helper |-> helper, auto |-> auto, conn |-> c]
Push(t, sc) == Append(scopes[t], sc)
Pop(t) == SubSeq(scopes[t], 1, Len(scopes[t]) - 1)
Top(t) == scopes[t][Len(scopes[t])]
Running(t) == pc[t] = "run"
CanEnter(t) == Running(t) /\ Len(scopes[t]) < MaxScopes

\* a call that opens or closes no `with` block
Plain(t, r, call) == Store(t, r, call, scopes[t], scopes[t])

\* the `with` block the caller is in once __enter__ has left r
Entered(kind, r) ==
    Scope(kind,
          IF kind \in {"atomic", "savepoint"} THEN r.ret ELSE NoHelper,
          IF kind = "start" THEN r.aux ELSE FALSE,
          IF kind = "start" THEN r.ret ELSE None)
Enter(t, kind, r, call) == Store(t, r, call, Push(t, Entered(kind, r)), scopes[t])

Connect(t) ==
    /\ Running(t)
    /\ \E reuse \in BOOLEAN :
          Plain(t, connect(World(t, "none"), reuse, None),
                [Call(t, "connect", "none") EXCEPT !.flag = Bool(reuse), !.ret = "bool"])

Close(t) ==
    /\ Running(t)
    /\ Plain(t, close(World(t, "none")), [Call(t, "close", "none") EXCEPT !.ret = "bool"])

InitFacade(t) ==
    /\ Running(t)
    /\ Plain(t, init(World(t, "none"), None), Call(t, "init", "none"))

IsClosed(t) ==
    /\ Running(t)
    /\ Plain(t, is_closed(World(t, "none")), [Call(t, "is_closed", "none") EXCEPT !.ret = "closed"])

\* what the driver does in a call: nothing wrong, cursor.execute raises
\* ProgrammingError, cursor.execute raises OperationalError (the link
\* dropped), connection.commit raises OperationalError
Faults == {"none", "execute", "commit"}
ExecuteFaults == Faults \cup {"lost"}
Statements == {SELECT_1, select_1, SP_SELECT_1, INSERT_1, DELETE_1}
CommitArgs == {SENTINEL, "True", "False"}
Params == {PNone, PTuple(1), PDict({"a"}), PList(1)}

ExecuteSql(t, stmts, commitArgs) ==
    /\ Running(t)
    /\ \E sql \in stmts, commitArg \in commitArgs, fault \in ExecuteFaults :
          Plain(t, execute_sql(World(t, fault), sql, commitArg),
                [Call(t, "execute_sql", fault) EXCEPT !.sql = sql, !.flag = commitArg])

Helpers == {"query_many", "query_one", "insert_one", "insert_many", "delete"}
RunHelper(h, w, sql, param) ==
    CASE h = "query_many" -> query_many(w, sql, param)
      [] h = "query_one" -> query_one(w, sql, param)
      [] h = "insert_one" -> insert_one(w, sql, param)
      [] h = "insert_many" -> insert_many(w, sql, param)
      [] OTHER -> delete(w, sql, param)

QueryHelper(t) ==
    /\ Running(t)
    /\ \E h \in Helpers, sql \in {SELECT_1, INSERT_1, INSERT_a}, param \in Params,
          fault \in {"none", "execute"} :
          Plain(t, RunHelper(h, World(t, fault), sql, param),
                [Call(t, h, fault) EXCEPT !.sql = sql, !.param = param])

\* `with db:`
EnterDb(t) ==
    /\ CanEnter(t)
    /\ Enter(t, "db", db_enter(World(t, "none")), Call(t, "db.__enter__", "none"))

\* `with db.atomic():`
EnterAtomic(t) ==
    /\ CanEnter(t)
    /\ Enter(t, "atomic", atomic_enter(World(t, "none")), Call(t, "atomic.__enter__", "none"))

\* `with db.transaction():`
EnterTransaction(t) ==
    /\ CanEnter(t)
    /\ Enter(t, "transaction", transaction_enter(World(t, "none")),
             Call(t, "transaction.__enter__", "none"))

\* `with db.savepoint():` _savepoint(db), then its __enter__
EnterSavepoint(t) ==
    /\ CanEnter(t)
    /\ \E fault \in {"none", "execute"} :
          Enter(t, "savepoint", atomic_enter_savepoint(savepoint_init(World(t, fault))),
                Call(t, "savepoint.__enter__", fault))

\* `with db.start_transaction() as _t:`
StartTransaction(t) ==
    /\ CanEnter(t)
    /\ Enter(t, "start", start_transaction_enter(World(t, "none")),
             Call(t, "start_transaction.__enter__", "none"))

\* The exception a `with` block's body raises
BodyError == Exc("BodyError", "")

\* the __exit__ of the block sc
scope_exit(w, sc, raised) ==
    CASE sc.kind = "db" -> db_exit(w, raised)
      [] sc.kind = "atomic" -> atomic_exit(w, sc.helper, raised)
      [] sc.kind = "transaction" -> transaction_exit(w, raised)
      [] sc.kind = "savepoint" -> savepoint_exit(w, sc.helper.sid, raised)
      [] OTHER -> start_transaction_exit(w, sc.auto, raised)

\* __exit__ returns None, so the body's exception goes on unless __exit__
\* raised another
body_raises(w, raised) == IF Ok(w) /\ raised THEN Raise(w, BodyError) ELSE w

\* The innermost open `with` block of the thread ends, normally or by an
\* exception raised in its body: its __exit__ runs.
ExitScope(t, faults) ==
    /\ Running(t)
    /\ scopes[t] # <<>>
    /\ \E raised \in BOOLEAN, fault \in faults :
          Store(t, body_raises(scope_exit(World(t, fault), Top(t), raised), raised),
                [Call(t, Top(t).kind \o ".__exit__", fault) EXCEPT !.flag = Bool(raised)],
                Pop(t), Pop(t))

\* the texts of the exceptions a start_transaction block raises: plain
\* words, and words that hold a conversion specifier
Messages == {<<"x">>, <<"%", "(", "a", ")", "s">>}

\* The innermost start_transaction block of the thread ends by an
\* exception with one of these texts, which goes on to the caller (`raise
\* ex`) unless the handler or the finally block raised another
ExitStartTransaction(t) ==
    /\ Running(t)
    /\ scopes[t] # <<>>
    /\ Top(t).kind = "start"
    /\ \E msg \in Messages :
          Store(t, Reraise(start_transaction_raised(World(t, "none"), Top(t).auto, msg),
                           Exc("BodyError", Join(msg))),
                [Call(t, "start.__exit__", "none") EXCEPT !.flag = "True", !.sql = msg],
                Pop(t), Pop(t))

SessionStart(t) ==
    /\ Running(t)
    /\ Plain(t, session_start(World(t, "none")), Call(t, "session_start", "none"))

SessionCommit(t) ==
    /\ Running(t)
    /\ \E fault \in {"none", "commit"} :
          Plain(t, session_commit(World(t, fault)),
                [Call(t, "session_commit", fault) EXCEPT !.ret = "bool"])

SessionRollback(t) ==
    /\ Running(t)
    /\ Plain(t, session_rollback(World(t, "none")),
             [Call(t, "session_rollback", "none") EXCEPT !.ret = "bool"])

\* obj.insert(t=_t) inside `with ....start_transaction() as _t:`
ModelInsert(t) ==
    /\ Running(t)
    /\ scopes[t] # <<>>
    /\ Top(t).kind = "start"
    /\ drv[Top(t).conn].alive
    /\ \E fault \in Faults :
          Plain(t, DBModel_insert(World(t, fault), Top(t).conn, INSERT_a, PDict({"a"})),
                [Call(t, "DBModel.insert", fault) EXCEPT !.sql = INSERT_a, !.param = PDict({"a"})])

\* parse has not been called
NoArgs == [call |-> "", tablename |-> "", order_by |-> "", page |-> VNone, size |-> VNone,
           terms |-> <<>>, join |-> <<>>]
NoResult == [exc |-> Exc("uncalled", ""), filter |-> "", param |-> <<>>]

\* The arguments parse is called with
Fields == {"age", "a", "a0"}
LowerChars == {"(", "[", "{"}
UpperChars == {")", "]", "}"}
RangeValues ==
    {VSeq(<<VInt(20), VInt(40)>>), VSeq(<<VInt(0), VInt(40)>>),
     VSeq(<<VInt(20), VNone>>), VSeq(<<VNone, VNone>>)}
RangeTerms ==
    {Pair(v, OStr(<<l, u>>)) : v \in RangeValues, l \in LowerChars, u \in UpperChars}
    \cup {Pair(v, OTuple(<<l, u>>)) : v \in RangeValues, l \in LowerChars, u \in UpperChars}
OtherTerms ==
    {Scalar(VInt(5)), Scalar(VText(<<"x">>)), Scalar(VNone),
     Scalar(VText(<<"\\", "b", ".", "i", "d", "\\">>)),
     Pair(VInt(5), OStr(<<">">>)), Pair(VInt(5), OStr(<<" ", ">", "=", " ">>)),
     Pair(VNone, OStr(<<"=">>)), Pair(VText(<<"%", "x", "%">>), OStr(<<"L", "I", "K", "E">>)),
     Pair(VSeq(<<VInt(1), VInt(2)>>), OStr(<<"I", "N">>)),
     Pair(VSeq(<<>>), OStr(<<"I", "N">>)),
     Pair(VSeq(<<VInt(1)>>), OStr(<<"N", "O", "T", " ", "I", "N">>)),
     Pair(VSeq(<<VText(<<"x">>), VText(<<"y">>)>>), OStr(<<"L", "I", "K", "E">>)),
     Pair(VSeq(<<>>), OStr(<<"L", "I", "K", "E">>))}

\* the keyword mappings of at most n terms: the keys are distinct; any term
\* comes first, the terms after it are not ranges
RECURSIVE Mappings(_)
Mappings(n) ==
    IF n = 0 THEN {<<>>}
    ELSE Mappings(n - 1) \cup
         {Append(m, [fname |-> f, term |-> x]) :
             m \in {mm \in Mappings(n - 1) : Len(mm) = n - 1},
             f \in Fields,
             x \in IF n = 1 THEN RangeTerms \cup OtherTerms ELSE OtherTerms}
KeysDistinct(m) == \A i, j \in 1..Len(m) : m[i].fname = m[j].fname => i = j
Paging == {<<VNone, VNone>>, <<VInt(2), VInt(10)>>, <<VInt(0), VInt(0)>>}
\* more (page, size) arguments: one of them missing, first and later
\* pages, numbers below the floors
AllPaging ==
    Paging \cup {<<VNone, VInt(10)>>, <<VInt(2), VNone>>, <<VInt(1), VInt(5)>>,
                 <<VInt(3), VInt(1)>>, <<VInt(-1), VInt(-3)>>}

AllMappings(n) == {m \in Mappings(n) : KeysDistinct(m)}

\* a smaller choice of terms, one of each kind, in any order
CoreTerms ==
    {Scalar(VInt(5)), Scalar(VText(<<"x">>)), Scalar(VNone),
     Pair(VNone, OStr(<<"=">>)),
     Pair(VSeq(<<VInt(1), VInt(2)>>), OStr(<<"I", "N">>)),
     Pair(VSeq(<<>>), OStr(<<"I", "N">>)),
     Pair(VSeq(<<>>), OStr(<<"N", "O", "T", " ", "I", "N">>)),
     Pair(VSeq(<<VText(<<"x">>)>>), OStr(<<"L", "I", "K", "E">>)),
     Pair(VSeq(<<VInt(20), VInt(40)>>), OStr(<<"[", ")">>))}
RECURSIVE MappingsOf(_, _)
MappingsOf(n, T) ==
    IF n = 0 THEN {<<>>}
    ELSE MappingsOf(n - 1, T) \cup
         {Append(m, [fname |-> f, term |-> x]) :
             m \in {mm \in MappingsOf(n - 1, T) : Len(mm) = n - 1}, f \in Fields, x \in T}
CoreMappings(n) == {m \in MappingsOf(n, CoreTerms) : KeysDistinct(m)}

\* the terms that bind parameters, one of each kind
MergeTerms ==
    {Scalar(VText(<<"x">>)),
     Pair(VSeq(<<VInt(1), VInt(2)>>), OStr(<<"I", "N">>)),
     Pair(VSeq(<<VText(<<"x">>)>>), OStr(<<"L", "I", "K", "E">>)),
     Pair(VSeq(<<VInt(20), VInt(40)>>), OStr(<<"[", ")">>))}
MergeMappings(n) == {m \in MappingsOf(n, MergeTerms) : KeysDistinct(m)}

\* a call parse(tablename, order_by, page, size, **terms), terms from maps,
\* (page, size) from pagings
Parse(maps, pagings) ==
    /\ pout = NoResult
    /\ \E tablename \in {"", "t"}, order_by \in {"", "id"}, pg \in pagings, terms \in maps :
          /\ pin' = [NoArgs EXCEPT !.call = "parse", !.tablename = tablename,
                                   !.order_by = order_by, !.page = pg[1], !.size = pg[2],
                                   !.terms = terms]
          /\ pout' = parse(tablename, order_by, pg[1], pg[2], terms)
    /\ UNCHANGED <<dbvars, cond>>

\* a call parse_join(**terms), terms from maps
ParseJoin(maps) ==
    /\ pout = NoResult
    /\ \E terms \in maps :
          /\ pin' = [NoArgs EXCEPT !.call = "parse_join", !.terms = terms]
          /\ pout' = parse_join(terms)
    /\ UNCHANGED <<dbvars, cond>>

\* parsed['param'].update(join_parsed['param'])
update(param, other) == SetItems(param, other)

\* DBModel.get_many_and_join up to its query, with one join table: the
\* base terms are parsed, the join terms are parsed, the join parameters
\* are merged into the base parameters
merge_join(parsed, join_parsed) ==
    IF parsed.exc # NoExc THEN parsed
    ELSE IF join_parsed.exc # NoExc THEN [parsed EXCEPT !.exc = join_parsed.exc]
    ELSE [parsed EXCEPT !.param = update(@, join_parsed.param)]

GetManyAndJoin(maps, jmaps) ==
    /\ pout = NoResult
    /\ \E pg \in {<<VNone, VNone>>, <<VInt(2), VInt(10)>>}, terms \in maps, jterms \in jmaps :
          /\ pin' = [NoArgs EXCEPT !.call = "get_many_and_join", !.page = pg[1], !.size = pg[2],
                                   !.terms = terms, !.join = jterms]
          /\ pout' = merge_join(parse("", "", pg[1], pg[2], terms), parse_join(jterms))
    /\ UNCHANGED <<dbvars, cond>>

\* the calls made on Conditions: every method with a value of its kind,
\* gt and lt also with equal=True
CondValues(name) ==
    CASE name \in {"like", "nlike", "eq", "neq"} -> {VText(<<"x">>)}
      [] name \in {"in_these", "nin_these"} -> {VSeq(<<VInt(1), VInt(2)>>)}
      [] name = "lt" -> {VInt(123), VInt(321)}
      [] OTHER -> {VInt(123)}
CondCalls ==
    {[name |-> name, field_name |-> f, val |-> v, equal |-> e] :
        name \in {"like", "nlike", "eq", "neq", "gt", "gte", "lt", "lte", "in_these", "nin_these"},
        f \in {"abc", "bca"}, v \in {VText(<<"x">>), VSeq(<<VInt(1), VInt(2)>>), VInt(123), VInt(321)},
        e \in BOOLEAN}
Callable(call) ==
    /\ call.val \in CondValues(call.name)
    /\ call.equal => call.name \in {"gt", "lt"}
NoCond == [condition |-> NoCondition, calls |-> <<>>, made |-> <<>>, node |-> NoCondition]

\* c.and_<name>(...) on the Condition c, chained after the calls before it
AndMethod ==
    /\ Len(cond.calls) < MaxChain
    /\ \E call \in CondCalls :
          /\ Callable(call)
          /\ cond' = [cond EXCEPT !.condition = and_method(@, call), !.calls = Append(@, call)]
    /\ UNCHANGED <<dbvars, pin, pout>>

\* Condition.<name>(...), the node it returns
ClassMethod ==
    /\ \E call \in CondCalls :
          /\ Callable(call)
          /\ cond' = [cond EXCEPT !.made = <<call>>, !.node = classmethod(call)]
    /\ UNCHANGED <<dbvars, pin, pout>>

\* ------------------------------------------------------------- specification
\* The world MyDBApi(...) is constructed in
World0(ar) ==
    [s |-> FreshState, deferred |-> FALSE, autorollback |-> ar, lock |-> 0,
     me |-> 1, drv |-> [c \in ConnIds |-> NoConn], nconn |-> 0, durable |-> 0,
     fault |-> "none",
     calls |-> <<>>, exc |-> NoExc, ret |-> None, aux |-> FALSE]

\* The facade as DBApi.__init__ leaves it (r) in the thread that built it
\* (thread 1); the other thread has not touched it yet.
Constructed(r) ==
    /\ st = [t \in Threads |-> IF t = 1 THEN r.s ELSE FreshState]
    /\ deferred = r.deferred
    /\ autorollback = r.autorollback
    /\ lock = r.lock
    /\ pc = [t \in Threads |-> "run"]
    /\ scopes = [t \in Threads |-> <<>>]
    /\ drv = r.drv
    /\ nconn = r.nconn
    /\ durable = 0
    /\ last = [Call(1, "__init__", "none") EXCEPT !.calls = r.calls]
    /\ pin = NoArgs
    /\ pout = NoResult
    /\ cond = NoCond

Init == \E ar \in BOOLEAN : Constructed(init(World0(ar), None))

\* one thread: connections, scopes and sessions
Next ==
    \/ Connect(1)
    \/ Close(1)
    \/ InitFacade(1)
    \/ IsClosed(1)
    \/ EnterDb(1)
    \/ EnterAtomic(1)
    \/ EnterTransaction(1)
    \/ EnterSavepoint(1)
    \/ ExitScope(1, Faults)
    \/ SessionStart(1)
    \/ SessionCommit(1)
    \/ SessionRollback(1)
    \/ ExecuteSql(1, {INSERT_1}, {SENTINEL})
Spec == Init /\ [][Next]_vars

\* one thread: statements
NextSql ==
    \/ Connect(1)
    \/ Close(1)
    \/ SessionStart(1)
    \/ SessionCommit(1)
    \/ ExecuteSql(1, Statements, CommitArgs)
SpecSql == Init /\ [][NextSql]_vars

\* one thread: the query helpers
NextHelper ==
    \/ Close(1)
    \/ SessionStart(1)
    \/ QueryHelper(1)
SpecHelper == Init /\ [][NextHelper]_vars

\* one thread: start_transaction and the model calls made inside it
NextTx ==
    \/ StartTransaction(1)
    \/ ModelInsert(1)
    \/ ExitScope(1, Faults)
    \/ ExecuteSql(1, {INSERT_1}, {SENTINEL})
    \/ Close(1)
SpecTx == Init /\ [][NextTx]_vars

\* two threads sharing the facade
NextMT ==
    \E t \in Threads :
        \/ Connect(t)
        \/ Close(t)
        \/ EnterTransaction(t)
        \/ ExitScope(t, {"none"})
        \/ SessionStart(t)
        \/ SessionCommit(t)
SpecMT == Init /\ [][NextMT]_vars

\* A facade whose deferred attribute the application has set or cleared
\* after constructing it
Deferred(r, d) == [r EXCEPT !.deferred = d]
InitDeferred == \E ar \in BOOLEAN, d \in BOOLEAN : Constructed(Deferred(init(World0(ar), None), d))

\* one thread: connect and close on a facade that may be deferred
NextConnect ==
    \/ Connect(1)
    \/ Close(1)
    \/ IsClosed(1)
    \/ EnterTransaction(1)
    \/ ExitScope(1, Faults)
    \/ SessionStart(1)
    \/ SessionRollback(1)
SpecConnect == InitDeferred /\ [][NextConnect]_vars

\* one thread: `with db:` blocks and the statements run in them
NextDb ==
    \/ EnterDb(1)
    \/ ExitScope(1, Faults)
    \/ IsClosed(1)
    \/ ExecuteSql(1, {SELECT_1, INSERT_1}, {SENTINEL})
SpecDb == Init /\ [][NextDb]_vars

\* one thread: everything that may open or close the connection, with
\* statements and commits that fail
NextClosed ==
    \/ Close(1)
    \/ InitFacade(1)
    \/ IsClosed(1)
    \/ EnterDb(1)
    \/ ExitScope(1, Faults)
    \/ SessionStart(1)
    \/ SessionCommit(1)
    \/ ExecuteSql(1, {INSERT_1}, {SENTINEL})
SpecClosed == Init /\ [][NextClosed]_vars

\* one thread: connections, blocks of every kind and sessions, with
\* commits that fail and no statement
NextStacks ==
    \/ Connect(1)
    \/ Close(1)
    \/ InitFacade(1)
    \/ EnterDb(1)
    \/ EnterAtomic(1)
    \/ EnterTransaction(1)
    \/ EnterSavepoint(1)
    \/ ExitScope(1, Faults)
    \/ SessionStart(1)
    \/ SessionCommit(1)
    \/ SessionRollback(1)
SpecStacks == InitDeferred /\ [][NextStacks]_vars

\* one thread: start_transaction blocks, nested, that end normally, by a
\* failing commit or by exceptions of several texts
NextStart ==
    \/ StartTransaction(1)
    \/ ExitScope(1, Faults)
    \/ ExitStartTransaction(1)
    \/ ExecuteSql(1, {INSERT_1}, {SENTINEL})
SpecStart == Init /\ [][NextStart]_vars

\* the filter compiler alone, on a facade nobody uses
InitParse == Init /\ ~autorollback
NextParse == Parse(AllMappings(MaxTerms), Paging)
SpecParse == InitParse /\ [][NextParse]_vars

\* parse_join alone, on the same mappings
NextJoin == ParseJoin(AllMappings(MaxTerms))
SpecJoin == InitParse /\ [][NextJoin]_vars

\* parse and parse_join on mappings of the smaller choice of terms
\* terms of a join: a column of the other table as a raw literal, bare or
\* with its operator, beside a value to bind
RawTerms ==
    {Scalar(VText(<<"\\", "b", ".", "i", "d", "\\">>)),
     Pair(VText(<<"\\", "b", ".", "i", "d", "\\">>), OStr(<<"=">>)),
     Scalar(VText(<<"x">>))}
JoinMappings(n) == CoreMappings(n) \cup {m \in MappingsOf(n, RawTerms) : KeysDistinct(m)}
NextTerms ==
    \/ Parse(CoreMappings(MaxTerms), AllPaging)
    \/ ParseJoin(JoinMappings(MaxTerms))
SpecTerms == InitParse /\ [][NextTerms]_vars

\* get_many_and_join: base terms and the terms of one join table
NextMerge == GetManyAndJoin(MergeMappings(MaxTerms), MergeMappings(1))
SpecMerge == InitParse /\ [][NextMerge]_vars

\* Conditions: chains of and_<name> calls and the classmethods
NextCond == AndMethod \/ ClassMethod
SpecCond == InitParse /\ [][NextCond]_vars

\* ------------------------------------------------------------- properties
\* the driver calls named `name` among the calls c of one operation
Count(c, name) == Cardinality({i \in DOMAIN c : c[i].call = name})
\* the statements among c that start with the words of `text`
CountSql(c, text) ==
    Cardinality({i \in DOMAIN c : c[i].call = "execute" /\ StartsWith(c[i].arg, text)})
CallsOn(c, name, conn) == {i \in DOMAIN c : c[i].call = name /\ c[i].conn = conn}
\* cursor.execute was called once and returned
Executed(call) == Count(call.calls, "execute") = 1 /\ call.fault \notin {"execute", "lost"}

\* C1: inside a start_transaction scope, a statement run through a facade
\* built on the yielded connection (DBModel.insert(t=_t)) causes no
\* commit on that connection and makes nothing durable before the scope
\* exits; when the body then raises, the scope's exit leaves nothing
\* pending on the connection and the body's exception reaches the caller.
C1_NoCommitInsideStartTransaction ==
    [][/\ (/\ last'.op = "DBModel.insert"
           /\ last'.fault = "none"
           /\ scopes[1] # <<>>
           /\ Top(1).kind = "start")
            => /\ CallsOn(last'.calls, "commit", Top(1).conn) = {}
               /\ durable' = durable
       /\ (/\ last'.op = "start.__exit__"
           /\ last'.flag = "True"
           /\ last'.fault = "none"
           /\ scopes[1] # <<>>)
            => /\ last'.exc = BodyError
               /\ drv'[Top(1).conn].pending = 0]_vars

\* C1, the case: an insert through such a facade has returned while the
\* start_transaction scope is open
C1_Witness ==
    /\ last.op = "DBModel.insert"
    /\ last.exc = NoExc
    /\ scopes[1] # <<>>
    /\ Top(1).kind = "start"

\* C2: with a transaction open, a nested atomic() scope can be entered,
\* and when its body raises its exit issues exactly one ROLLBACK TO
\* SAVEPOINT and no full rollback, leaves the outer transaction open and
\* the transaction stack one shorter than while the nested scope was open.
C2_NestedAtomicRollsBackToSavepoint ==
    [][/\ (last'.op = "atomic.__enter__" /\ st[1].transactions # <<>>)
            => /\ last'.exc = NoExc
               /\ scopes'[1] # <<>>
               /\ scopes'[1][Len(scopes'[1])].helper.kind = "savepoint"
       /\ (/\ last'.op = "atomic.__exit__"
           /\ last'.flag = "True"
           /\ scopes[1] # <<>>
           /\ Top(1).helper.kind = "savepoint")
            => /\ CountSql(last'.calls, <<"R", "O", "L", "L", "B", "A", "C", "K", " ", "T", "O">>) = 1
               /\ Count(last'.calls, "rollback") = 0
               /\ st'[1].transactions # <<>>
               /\ Len(st'[1].transactions) = Len(st[1].transactions) - 1]_vars

\* C2, the case: atomic() has been entered with a transaction open
C2_Witness ==
    /\ last.op = "atomic.__enter__"
    /\ st[1].transactions # <<>>
    /\ last.exc.type = "AttributeError"

\* C3: close() while a transaction is open raises OperationalError and
\* changes nothing: the driver connection is not closed, the state stays
\* open, the transaction stack is as it was.
C3_CloseInTransactionRefused ==
    [][(last'.op = "close" /\ st[1].transactions # <<>>)
          => /\ last'.exc.type = "OperationalError"
             /\ Count(last'.calls, "close") = 0
             /\ drv' = drv
             /\ ~st'[1].closed
             /\ st' = st]_vars

\* C3, the case: close() was called in a transaction and refused
C3_Witness ==
    /\ last.op = "close"
    /\ st[1].transactions # <<>>
    /\ last.exc.type = "OperationalError"

\* C4: execute_sql with the default commit argument calls the driver's
\* commit() never while a transaction is open, exactly once after a
\* non-SELECT statement that executed with no transaction open, and not at
\* all after a SELECT statement.
C4_DefaultCommitPolicy ==
    [][(last'.op = "execute_sql" /\ last'.flag = SENTINEL)
          => /\ st[1].transactions # <<>> => Count(last'.calls, "commit") = 0
             /\ (st[1].transactions = <<>> /\ Executed(last') /\ ~IsSelectStatement(last'.sql))
                    => Count(last'.calls, "commit") = 1
             /\ (st[1].transactions = <<>> /\ IsSelectStatement(last'.sql))
                    => Count(last'.calls, "commit") = 0]_vars

\* C4, the case: a SELECT statement was executed with the default commit
\* argument and no transaction open
C4_Witness ==
    /\ last.op = "execute_sql"
    /\ last.flag = SENTINEL
    /\ st[1].transactions = <<>>
    /\ Executed(last)
    /\ IsSelectStatement(last.sql)

\* C5: when cursor.execute raises inside execute_sql, rollback() is called
\* exactly once if autorollback is on and no transaction is open and not
\* at all otherwise; no commit is issued, the transaction stack is as it
\* was, and the caller gets the exception: the driver's own when its
\* class is not one the wrapper translates, otherwise the porm exception
\* of the same class name.
C5_AutorollbackOnFailure ==
    [][(last'.op = "execute_sql" /\ last'.fault \in {"execute", "lost"}
            /\ Count(last'.calls, "execute") = 1)
          => /\ Count(last'.calls, "rollback")
                    = IF autorollback /\ st[1].transactions = <<>> THEN 1 ELSE 0
             /\ Count(last'.calls, "commit") = 0
             /\ st'[1].transactions = st[1].transactions
             /\ last'.exc.type = (IF last'.fault = "execute" THEN "ProgrammingError"
                                                             ELSE "OperationalError")
             /\ last'.fault = "execute" => last'.exc = ProgrammingError]_vars

\* C5, the case: cursor.execute raised and the facade rolled back
C5_Witness ==
    /\ last.op = "execute_sql"
    /\ last.fault = "execute"
    /\ Count(last.calls, "execute") = 1
    /\ Count(last.calls, "rollback") = 1

\* C6: connect() raises InterfaceError on a deferred facade; otherwise, on
\* an open connection, it raises OperationalError without reuse_if_open
\* and returns False with it; in each case the connection handle, the
\* closed flag and the transaction stack are as they were.
C6_ConnectRefusals ==
    [][last'.op = "connect"
          => /\ deferred => (last'.exc.type = "InterfaceError" /\ st' = st)
             /\ (~deferred /\ ~st[1].closed /\ last'.flag = "False")
                    => (last'.exc.type = "OperationalError" /\ st' = st)
             /\ (~deferred /\ ~st[1].closed /\ last'.flag = "True")
                    => (last'.exc = NoExc /\ last'.ret = "False" /\ st' = st)]_vars

\* C6, the case: connect() without reuse_if_open on an open connection
C6_Witness ==
    /\ last.op = "connect"
    /\ last.flag = "False"
    /\ last.exc.type = "OperationalError"
    /\ ~st[1].closed

\* C7: on a thread_safe facade shared by two threads, an operation of one
\* thread never changes the other thread's closed flag, connection
\* handle, ctx stack or transaction stack.
C7_ThreadLocalState ==
    [][\A t \in Threads : last'.th = t => \A u \in Threads \ {t} : st'[u] = st[u]]_vars

\* C7, the case: both threads have a connection of their own open, the
\* second with a transaction the first does not have
C7_Witness ==
    /\ ~st[1].closed
    /\ ~st[2].closed
    /\ st[1].conn # st[2].conn
    /\ st[1].transactions = <<>>
    /\ st[2].transactions # <<>>

\* the `with db:` blocks among the caller's open blocks
DbScopes(t) == {i \in DOMAIN scopes[t] : scopes[t][i].kind = "db"}

\* C8: the exit of the outermost `with db:` block, normal or by an
\* exception, closes the connection; the exit of an inner block leaves it
\* open.
C8_OutermostExitCloses ==
    [][last'.op = "db.__exit__"
          => IF Cardinality(DbScopes(1)) = 1 THEN st'[1].closed ELSE ~st'[1].closed]_vars

\* C8, the case: the only open `with db:` block has ended
C8_Witness ==
    /\ last.op = "db.__exit__"
    /\ scopes[1] = <<>>

\* C9: when execute_sql raises inside a query helper, the helper raises
\* that same exception (type and message), whatever params it was given.
C9_HelperKeepsException ==
    (last.op \in Helpers /\ last.fault = "execute" /\ Count(last.calls, "execute") = 1)
        => last.exc = ProgrammingError

\* C9, the case: cursor.execute raised inside a helper
C9_Witness ==
    /\ last.op \in Helpers
    /\ last.fault = "execute"
    /\ Count(last.calls, "execute") = 1

\* a mapping of one range term with both bounds set and its boundary given
\* as a tuple of two boundary characters; no table name, order or paging
TupleRange ==
    /\ pin.call = "parse"
    /\ Len(pin.terms) = 1
    /\ pin.terms[1].term.pair
    /\ pin.terms[1].term.op.t = "tuple"
    /\ pin.terms[1].term.v.t = "seq"
    /\ Len(pin.terms[1].term.v.items) = 2
    /\ Truth(pin.terms[1].term.v.items[1])
    /\ Truth(pin.terms[1].term.v.items[2])
    /\ pin.terms[1].term.op.chars[1] \in {"(", "["}
    /\ pin.terms[1].term.op.chars[2] \in {")", "]"}
    /\ pin.tablename = ""
    /\ pin.order_by = ""
    /\ pin.page = VNone

\* C10: for a range term (lo, hi) whose boundary is a tuple of two
\* characters, parse emits `field<lowop>%(p)s AND field<upop>%(q)s` with
\* '(' giving '>', '[' '>=', ')' '<' and ']' '<=', p bound to lo and q to hi.
C10_TupleBoundaryRange ==
    (pout # NoResult /\ TupleRange)
        => /\ pout.exc = NoExc
           /\ Len(pout.param) = 2
           /\ pout.param[1].v = pin.terms[1].term.v.items[1]
           /\ pout.param[2].v = pin.terms[1].term.v.items[2]
           /\ pout.filter =
                "1=1 AND " \o pin.terms[1].fname
                \o (IF pin.terms[1].term.op.chars[1] = "(" THEN ">" ELSE ">=")
                \o "%(" \o pout.param[1].k \o ")s AND " \o pin.terms[1].fname
                \o (IF pin.terms[1].term.op.chars[2] = ")" THEN "<" ELSE "<=")
                \o "%(" \o pout.param[2].k \o ")s"

\* C10, the case: parse was called with such a term
C10_Witness == pout # NoResult /\ TupleRange

\* ------------------------------------------------ properties of the parser
\* sql_params[k] of a dict kept in insertion order
Get(param, k) == param[CHOOSE i \in 1..Len(param) : param[i].k = k].v
\* sub in s
Contains(s, sub) == \E k \in 1..(Len(s) - Len(sub) + 1) : SubSeq(s, k, k + Len(sub) - 1) = sub

IsIn(term) ==
    /\ term.pair /\ term.v.t = "seq" /\ term.op.t = "str"
    /\ Join(Strip(term.op.chars)) \in {"IN", "NOT IN"}
Qualified(tablename, fname) == IF tablename # "" THEN tablename \o "." \o fname ELSE fname
Placeholder(k) == "%(" \o k \o ")s"
ParseReturned == pin.call = "parse" /\ pout.exc = NoExc

\* C11: when parse returns, every term (non-empty sequence, IN / NOT IN)
\* of its mapping is in the filter as `field IN (p0, p1, ...)` (resp. NOT
\* IN) with one placeholder fltr_<field><i> per element, and param binds
\* the i-th placeholder to the i-th element of the sequence
C11_InClauseBindsEachElement ==
    ParseReturned =>
        \A n \in 1..Len(pin.terms) :
            (IsIn(pin.terms[n].term) /\ pin.terms[n].term.v.items # <<>>) =>
                /\ Contains(pout.filter,
                       " AND " \o Qualified(pin.tablename, pin.terms[n].fname) \o " "
                       \o Join(Strip(pin.terms[n].term.op.chars)) \o " ("
                       \o JoinWith([i \in 1..Len(pin.terms[n].term.v.items) |->
                                       Placeholder("fltr_" \o pin.terms[n].fname \o ToString(i - 1))],
                                   ", ")
                       \o ")")
                /\ \A i \in 1..Len(pin.terms[n].term.v.items) :
                       /\ HasKey(pout.param, "fltr_" \o pin.terms[n].fname \o ToString(i - 1))
                       /\ Get(pout.param, "fltr_" \o pin.terms[n].fname \o ToString(i - 1))
                              = pin.terms[n].term.v.items[i]

\* C11, the case: parse returned for a mapping with a non-empty IN term
C11_Witness ==
    /\ ParseReturned
    /\ \E n \in 1..Len(pin.terms) : IsIn(pin.terms[n].term) /\ pin.terms[n].term.v.items # <<>>

\* the same for a mapping of one term
C11_SingleTerm == Len(pin.terms) = 1 => C11_InClauseBindsEachElement

Without(terms, n) == SubSeq(terms, 1, n - 1) \o SubSeq(terms, n + 1, Len(terms))
\* the call of pin made again on other terms
Recompiled(terms) ==
    IF pin.call = "parse" THEN parse(pin.tablename, pin.order_by, pin.page, pin.size, terms)
    ELSE parse_join(terms)
CompilerReturned == pin.call \in {"parse", "parse_join"} /\ pout.exc = NoExc
Plainly == pin.order_by = "" /\ (pin.page.t = "none" \/ pin.size.t = "none")
EmptyIn(term) == IsIn(term) /\ term.v.items = <<>>

\* C12: when parse or parse_join returns, a term (empty sequence, IN /
\* NOT IN) is in the filter as the conjunct `1<>1`, whatever its field,
\* and param is what it is for the mapping without the term; as the last
\* term it adds ` AND 1<>1` to the filter of the mapping without it
C12_EmptyInIsFalseLiteral ==
    CompilerReturned =>
        \A n \in 1..Len(pin.terms) :
            EmptyIn(pin.terms[n].term) =>
                /\ Contains(pout.filter, " AND 1<>1")
                /\ pout.param = Recompiled(Without(pin.terms, n)).param
                /\ (n = Len(pin.terms) /\ Plainly) =>
                       pout.filter = Recompiled(Without(pin.terms, n)).filter \o " AND 1<>1"

\* C12, the case: parse returned for a mapping with an empty NOT IN term
\* after a term that binds a parameter
C12_Witness ==
    /\ ParseReturned
    /\ Len(pin.terms) = 2
    /\ pout.param # <<>>
    /\ EmptyIn(pin.terms[2].term)
    /\ Join(pin.terms[2].term.op.chars) = "NOT IN"

\* C12, the same case in parse_join
C12_WitnessJoin ==
    /\ pin.call = "parse_join" /\ pout.exc = NoExc
    /\ \E n \in 1..Len(pin.terms) : EmptyIn(pin.terms[n].term)

\* C13: when parse returns, a term whose value is None, bare or in a
\* (None, operator) pair, leaves no trace: filter and param are those of
\* the mapping without the term
C13_NoneTermsCompileToNothing ==
    ParseReturned =>
        \A n \in 1..Len(pin.terms) :
            pin.terms[n].term.v.t = "none" => pout = Recompiled(Without(pin.terms, n))

\* C13, the case: parse returned for a bare None between or beside a term
\* that compiles to a predicate
C13_Witness ==
    /\ ParseReturned
    /\ Len(pin.terms) = 2
    /\ ~pin.terms[1].term.pair /\ pin.terms[1].term.v.t = "none"
    /\ pin.terms[2].term.v.t # "none"
    /\ pout.param # <<>>

\* C13, the case of a (None, operator) pair
C13_WitnessPair ==
    /\ ParseReturned
    /\ \E n \in 1..Len(pin.terms) : pin.terms[n].term.pair /\ pin.terms[n].term.v.t = "none"

EndsWith(s, suffix) ==
    Len(s) >= Len(suffix) /\ SubSeq(s, Len(s) - Len(suffix) + 1, Len(s)) = suffix
Paged == pin.page.t # "none" /\ pin.size.t # "none"

\* C14: when parse returns with page and size both given, the filter ends
\* with `LIMIT %(page_from)s, %(page_to)s`, page_to is max(1, size) and
\* page_from is max(0, page - 1) * max(1, size): 0 for every page <= 1, and
\* 10 and 10 for page 2 of size 10; when page or size is None there is no
\* LIMIT and no page_from or page_to
C14_Pagination ==
    ParseReturned =>
        IF Paged
        THEN /\ EndsWith(pout.filter, " LIMIT %(page_from)s, %(page_to)s")
             /\ HasKey(pout.param, "page_from") /\ HasKey(pout.param, "page_to")
             /\ Get(pout.param, "page_to") = VInt(Max(1, pin.size.i))
             /\ Get(pout.param, "page_from") = VInt(Max(0, pin.page.i - 1) * Max(1, pin.size.i))
             /\ pin.page.i <= 1 => Get(pout.param, "page_from") = VInt(0)
             /\ (pin.page.i = 2 /\ pin.size.i = 10) =>
                    /\ Get(pout.param, "page_from") = VInt(10)
                    /\ Get(pout.param, "page_to") = VInt(10)
        ELSE /\ ~Contains(pout.filter, "LIMIT")
             /\ ~HasKey(pout.param, "page_from") /\ ~HasKey(pout.param, "page_to")

\* C14, the case: parse returned for a page and a size below the floors
C14_Witness ==
    /\ ParseReturned /\ Paged
    /\ pin.page.i < 1 /\ pin.size.i < 1
    /\ pin.terms # <<>>

\* C14, the case of a size without a page
C14_WitnessNoPage == ParseReturned /\ pin.page.t = "none" /\ pin.size.t # "none"

IsLike(term) ==
    /\ term.pair /\ term.v.t = "seq" /\ term.op.t = "str"
    /\ Join(IF pin.call = "parse" THEN Strip(term.op.chars) ELSE term.op.chars) = "LIKE"
\* the parameter of the keyword at position i of a LIKE term on fname
LikeKey(fname, i) ==
    IF pin.call = "parse" THEN "LKE_" \o ToString(i - 1) \o "_" \o Qualified(pin.tablename, fname)
    ELSE "joinfltrLKE_" \o ToString(i - 1) \o "_joinfltr_" \o fname

\* one `field LIKE %(p)s` per keyword of the term, joined with sep
LikeClause(item, sep) ==
    JoinWith([i \in 1..Len(item.term.v.items) |->
                 Qualified(pin.tablename, item.fname) \o " LIKE "
                 \o Placeholder(LikeKey(item.fname, i))],
             sep)

\* C15: when parse or parse_join returns, a term (non-empty sequence of
\* strings, LIKE) is in the filter as one `field LIKE %(p)s` per keyword, each p
\* bound to its own keyword between % signs, and these predicates are
\* joined with OR
C15_MultiLikeIsDisjunction ==
    CompilerReturned =>
        \A n \in 1..Len(pin.terms) :
            (IsLike(pin.terms[n].term) /\ pin.terms[n].term.v.items # <<>>) =>
                /\ \A i \in 1..Len(pin.terms[n].term.v.items) :
                       /\ HasKey(pout.param, LikeKey(pin.terms[n].fname, i))
                       /\ Get(pout.param, LikeKey(pin.terms[n].fname, i))
                              = VStr("%" \o Str(pin.terms[n].term.v.items[i]) \o "%")
                /\ \/ Contains(pout.filter, " AND " \o LikeClause(pin.terms[n], " OR "))
                   \/ Contains(pout.filter, " AND (" \o LikeClause(pin.terms[n], " OR ") \o ")")

\* C15, the case: parse returned for a LIKE term of two keywords
C15_Witness ==
    /\ ParseReturned
    /\ \E n \in 1..Len(pin.terms) :
           IsLike(pin.terms[n].term) /\ Len(pin.terms[n].term.v.items) = 2

\* what the code does with the keywords of a LIKE term in parse: the same
\* predicates and parameters, joined with AND
C15_MultiLikeIsConjunction ==
    ParseReturned =>
        \A n \in 1..Len(pin.terms) :
            (IsLike(pin.terms[n].term) /\ pin.terms[n].term.v.items # <<>>) =>
                Contains(pout.filter, " AND " \o LikeClause(pin.terms[n], " AND "))

\* ------------------------------------------------ properties of Condition
\* the operator the name of a method stands for
NamedOperator(name, equal) ==
    CASE name = "like" -> "LIKE"
      [] name = "nlike" -> "NOT LIKE"
      [] name = "eq" -> "="
      [] name = "neq" -> "<>"
      [] name = "gt" -> IF equal THEN ">=" ELSE ">"
      [] name = "gte" -> ">="
      [] name = "lt" -> IF equal THEN "<=" ELSE "<"
      [] name = "lte" -> "<="
      [] name = "in_these" -> "IN"
      [] name = "nin_these" -> "NOT IN"
\* `field <operator> value` of one call
Rendered(call) ==
    call.field_name \o " " \o NamedOperator(call.name, call.equal) \o " " \o Format(call.val)
\* the left-nested conjunction of a chain of calls, starting from 1 = 1
RECURSIVE Conjunction(_)
Conjunction(calls) ==
    IF Len(calls) = 1 THEN "(1 = 1 AND " \o Rendered(calls[1]) \o ")"
    ELSE "(" \o Conjunction(SubSeq(calls, 1, Len(calls) - 1)) \o " AND "
         \o Rendered(calls[Len(calls)]) \o ")"

\* C16: a Condition after n >= 1 chained and_<name> calls renders as the
\* left-nested conjunction that starts from 1 = 1, each call as `field
\* <operator named by the method> value` (and_lt gives <, and_nin_these
\* gives NOT IN), which is also the rendering of the node the classmethod
\* <name> returns for the same arguments; Condition.lt('abc', 123) renders
\* as `abc < 123`
C16_ChainRendersAsConjunction ==
    /\ cond.calls # <<>> =>
           /\ str(cond.condition) = Conjunction(cond.calls)
           /\ \A i \in 1..Len(cond.calls) : str(classmethod(cond.calls[i])) = Rendered(cond.calls[i])
    /\ cond.made # <<>> => str(cond.node) = Rendered(cond.made[1])
    /\ cond.made = <<[name |-> "lt", field_name |-> "abc", val |-> VInt(123), equal |-> FALSE]>> =>
           str(cond.node) = "abc < 123"

\* C16, the case: a chain of two calls that ends with and_nin_these
C16_Witness ==
    /\ Len(cond.calls) = 2
    /\ cond.calls[2].name = "nin_these"

\* the chain of the test: and_lt('abc', 123), then and_lt('bca', 321)
C16_TestChain ==
    cond.calls = <<[name |-> "lt", field_name |-> "abc", val |-> VInt(123), equal |-> FALSE],
                   [name |-> "lt", field_name |-> "bca", val |-> VInt(321), equal |-> FALSE]>>
        => str(cond.condition) = "((1 = 1 AND abc < 123) AND bca < 321)"
C16_TestChainReached ==
    cond.calls = <<[name |-> "lt", field_name |-> "abc", val |-> VInt(123), equal |-> FALSE],
                   [name |-> "lt", field_name |-> "bca", val |-> VInt(321), equal |-> FALSE]>>

\* the claim for the chains without and_nin_these
C16_OtherMethods ==
    (\A i \in 1..Len(cond.calls) : cond.calls[i].name # "nin_these") => C16_ChainRendersAsConjunction

\* ------------------------------------------ properties of parse_join
\* a filter, as its characters, with the name taken out of every
\* placeholder %(name)s
InName(s, i) ==
    \E j \in 1..(i - 2) :
        /\ SubSeq(s, j, j + 1) = "%("
        /\ \A k \in (j + 2)..i : SubSeq(s, k, k) # ")"
Kept(c) == c # ""
Masked(s) == SelectSeq([i \in 1..Len(s) |-> IF InName(s, i) THEN "" ELSE SubSeq(s, i, i)], Kept)
Values(param) == [i \in 1..Len(param) |-> param[i].v]
\* parse(**terms) with no table name, order_by or pagination
Base(terms) == parse("", "", VNone, VNone, terms)

\* C17: parse_join(**terms) fails exactly when parse(**terms) fails, and
\* when they return their filters are the same text up to the names in
\* the placeholders and their parameters hold the same values in the same
\* order
C17_JoinCompilesAsParse ==
    pin.call = "parse_join" =>
        /\ pout.exc = NoExc <=> Base(pin.terms).exc = NoExc
        /\ pout.exc = NoExc =>
               /\ Masked(pout.filter) = Masked(Base(pin.terms).filter)
               /\ Values(pout.param) = Values(Base(pin.terms).param)

\* C17, the case: parse_join was called on an integer scalar
C17_Witness ==
    /\ pin.call = "parse_join"
    /\ Len(pin.terms) = 1
    /\ ~pin.terms[1].term.pair /\ pin.terms[1].term.v.t = "int"

\* where parse_join and parse agree: no integer scalar, no operator with
\* blanks around it, no LIKE on a sequence, no text between backslashes,
\* no boundary given as a tuple, no range with a missing bound
Agreeing(term) ==
    /\ term.v.t \notin {"int", "seq"} \/ (term.v.t = "seq" /\ (IsIn(term) \/ term.op.t = "str"))
    /\ term.pair => term.op.t = "str" /\ Strip(term.op.chars) = term.op.chars
    /\ term.v.t = "seq" => Join(term.op.chars) # "LIKE"
    /\ term.v.t = "seq" /\ ~IsIn(term) =>
           \A i \in 1..Len(term.v.items) : i <= 2 => Truth(term.v.items[i])
    /\ term.v.t = "str" => ~IsRaw(term.v)
C17_AgreeOnTheRest ==
    (\A n \in 1..Len(pin.terms) : Agreeing(pin.terms[n].term)) => C17_JoinCompilesAsParse

Keys(param) == {param[i].k : i \in 1..Len(param)}
\* the results get_many_and_join merges
BaseParsed == parse("", "", pin.page, pin.size, pin.terms)
JoinParsed == parse_join(pin.join)
Merged == pin.call = "get_many_and_join" /\ pout.exc = NoExc

\* C18: when get_many_and_join has parsed its base terms (with or without
\* pagination) and its join terms, the keys of the two param mappings are
\* disjoint, and after the merge every base key is still bound to its
\* base value, beside all the join bindings
C18_JoinKeysDisjointFromBase ==
    Merged =>
        /\ Keys(BaseParsed.param) \cap Keys(JoinParsed.param) = {}
        /\ \A i \in 1..Len(BaseParsed.param) :
               Get(pout.param, BaseParsed.param[i].k) = BaseParsed.param[i].v
        /\ \A i \in 1..Len(JoinParsed.param) :
               Get(pout.param, JoinParsed.param[i].k) = JoinParsed.param[i].v
        /\ Len(pout.param) = Len(BaseParsed.param) + Len(JoinParsed.param)

\* C18, the case: base terms with pagination and join terms on the same
\* field, both binding parameters
C18_Witness ==
    /\ Merged
    /\ pin.page.t # "none"
    /\ pin.terms # <<>> /\ pin.join # <<>>
    /\ pin.terms[1].fname = pin.join[1].fname
    /\ BaseParsed.param # <<>> /\ JoinParsed.param # <<>>

\* ------------------------------------------ properties of the transaction stack
Depth(t) == Len(st[Slot(t)].transactions)
Blocks == {"atomic", "transaction", "savepoint"}
\* the atomic / transaction / savepoint blocks thread t is in
OpenBlocks(t) == Cardinality({i \in DOMAIN scopes[t] : scopes[t][i].kind \in Blocks})
EntersScope(op) ==
    op \in {"atomic.__enter__", "transaction.__enter__", "savepoint.__enter__", "session_start"}
ExitsBlock(op) == op \in {"atomic.__exit__", "transaction.__exit__", "savepoint.__exit__"}

\* C19: transaction_depth() counts the open scopes. It is never below the
\* number of atomic / transaction / savepoint blocks the thread has
\* entered and not yet left (open sessions add to it); a scope that is
\* entered, or a session that is started, raises it by one, and leaving a
\* block lowers it by one
C19_DepthCountsOpenScopes ==
    /\ [](\A t \in Threads : Depth(t) >= OpenBlocks(t))
    /\ [][/\ (EntersScope(last'.op) /\ last'.exc = NoExc) =>
                 Len(st'[Slot(last'.th)].transactions) = Depth(last'.th) + 1
          /\ ExitsBlock(last'.op) =>
                 Len(st'[Slot(last'.th)].transactions) = Depth(last'.th) - 1]_vars

\* C19, the case: session_commit was called inside an open block
C19_Witness ==
    /\ last.op = "session_commit"
    /\ OpenBlocks(1) = 1
    /\ Len(scopes[1]) = 1

\* the steps of C19 alone: entering raises the depth, leaving lowers it
C19_Steps ==
    [][/\ (EntersScope(last'.op) /\ last'.exc = NoExc) =>
              Len(st'[Slot(last'.th)].transactions) = Depth(last'.th) + 1
       /\ ExitsBlock(last'.op) =>
              Len(st'[Slot(last'.th)].transactions) = Depth(last'.th) - 1]_vars

ClosesScope(op) == ExitsBlock(op) \/ op \in {"db.__exit__", "session_commit", "session_rollback"}

\* C20: a step that closes a scope (the exit of a block, session_commit,
\* session_rollback) calls the driver's commit() only when it takes the
\* transaction stack from depth 1 to depth 0; closing a scope while others
\* stay open commits nothing
C20_CommitOnlyAtOutermost ==
    [][(ClosesScope(last'.op) /\ Count(last'.calls, "commit") > 0) =>
           /\ Depth(last'.th) = 1
           /\ Len(st'[Slot(last'.th)].transactions) = 0]_vars

\* C20, the case: session_commit has closed the inner of two sessions
C20_Witness ==
    /\ last.op = "session_commit"
    /\ last.exc = NoExc
    /\ Count(last.calls, "commit") = 1
    /\ scopes[1] = <<>>
    /\ Depth(1) = 1

\* the exits of blocks alone commit only from depth 1
C20_BlockExits ==
    [][(ExitsBlock(last'.op) /\ Count(last'.calls, "commit") > 0) => Depth(last'.th) = 1]_vars

\* the call was the exit of a block whose body raised an exception
Raised(call) == call.flag = "True"

\* C21: the exit of an atomic / transaction block sends a full ROLLBACK
\* to the driver for the body's exception only from depth 1; a nested
\* block (depth > 1) that exits with an exception sends none, so the rows
\* the enclosing block left pending on the connection are kept
C21_FullRollbackOnlyAtOutermost ==
    [][(ExitsBlock(last'.op) /\ Raised(last')) =>
           /\ Count(last'.calls, "rollback") > 0 => Depth(last'.th) = 1
           /\ Depth(last'.th) > 1 => Count(last'.calls, "rollback") = 0]_vars

\* C21, the case: a nested transaction block has exited with an exception
\* while the enclosing block stays open
C21_Witness ==
    /\ last.op = "transaction.__exit__"
    /\ Raised(last)
    /\ Len(scopes[1]) = 1 /\ scopes[1][1].kind = "transaction"
    /\ Depth(1) = 1

\* what the exits do: a block that exits with an exception rolls back at
\* any depth
C21_RollbackAtAnyDepth ==
    [][(ExitsBlock(last'.op) /\ Raised(last') /\ Depth(last'.th) > 0 /\ last'.fault = "none") =>
           Count(last'.calls, "rollback") = 1]_vars

\* the last call was the exit, without an exception in the body, of a
\* transaction block that found depth 1 and whose driver commit() raised
CommitFailedAtExit ==
    /\ last'.op \in {"transaction.__exit__", "atomic.__exit__"}
    /\ last'.flag = "False"
    /\ Depth(last'.th) = 1
    /\ last'.fault = "commit"
    /\ Count(last'.calls, "commit") = 1

\* the statements a call sent to the driver with the text sql
Sent(calls, sql) == {i \in DOMAIN calls : calls[i].call = "execute" /\ calls[i].arg = sql}

\* _savepoint.__exit__ of a savepoint named s1 on the open connection of
\* thread 1, no exception in the body, the driver failing its statements
ReleaseFails == savepoint_exit(World(1, "execute"), "s1", FALSE)

Open(t) == ~st[Slot(t)].closed
\* what close() is reached through: the call itself, init(), `with db:`
ClosingCalls == {"close", "init", "db.__exit__"}

\* C23: is_closed() on an open connection pings the driver once and
\* answers False, and leaves the connection state and the driver as they
\* were; the closed flag goes from open to closed only in a close(), an
\* init() or the exit of the outermost `with db:`, each of which has closed
\* the driver's connection
C23_OnlyCloseCloses ==
    [][/\ (last'.op = "is_closed" /\ Open(last'.th)) =>
              /\ Count(last'.calls, "ping") = 1
              /\ Len(last'.calls) = 1
              /\ last'.ret = "False"
              /\ st' = st /\ drv' = drv /\ nconn' = nconn
       /\ \A t \in Threads :
              (~st[t].closed /\ st'[t].closed) =>
                  /\ last'.op \in ClosingCalls
                  /\ Count(last'.calls, "close") = 1
                  /\ last'.op = "db.__exit__" => Len(st[t].ctx) = 1]_vars

\* C23, the case: is_closed() has just answered False on an open connection
C23_Witness ==
    /\ last.op = "is_closed"
    /\ last.ret = "False"
    /\ Count(last.calls, "ping") = 1
    /\ Open(1)

\* C23, the other case: the outermost `with db:` has exited and closed
C23_WitnessExit ==
    /\ last.op = "db.__exit__"
    /\ Count(last.calls, "close") = 1
    /\ ~Open(1)

\* C23, what does not close: a statement has failed, a commit has failed,
\* and the connection is open
C23_WitnessFailures ==
    /\ last.fault \in {"execute", "lost", "commit"}
    /\ ~Ok(last)
    /\ Open(1)

\* the places of the text s where a placeholder %(name)s starts
Placeholders(s) == {i \in 1..(Len(s) - 1) : SubSeq(s, i, i + 1) = "%("}

\* C24: when parse or parse_join returns, every placeholder of the filter
\* has a parameter key of its own: param has as many keys as the filter
\* has placeholders, no binding having been overwritten by another
C24_OneKeyPerPlaceholder ==
    CompilerReturned => Len(pout.param) = Cardinality(Placeholders(pout.filter))

\* C24, the case: a mapping of two terms was compiled into at least two
\* placeholders, each with its key
C24_Witness ==
    /\ CompilerReturned
    /\ Len(pin.terms) = 2
    /\ Cardinality(Placeholders(pout.filter)) >= 2
    /\ Len(pout.param) = Cardinality(Placeholders(pout.filter))

\* the same for a mapping of one term: its positions do not collide
C24_SingleTerm == Len(pin.terms) = 1 => C24_OneKeyPerPlaceholder

\* the term compiles to no predicate by the compilers' own test: None
Nothing(term) == term.v.t = "none"

\* C25: when parse or parse_join returns, the clause is `1=1` followed by
\* ` AND <predicate>` parts with no predicate empty: no AND is followed by
\* nothing, in the middle or at the end of the clause; a mapping that is
\* empty or whose terms are all None gives the clause `1=1` alone
C25_WellFormedConjunction ==
    CompilerReturned =>
        /\ StartsWith(pout.filter, "1=1")
        /\ ~Contains(pout.filter, " AND  ")
        /\ ~EndsWith(pout.filter, " AND ")
        /\ (Plainly /\ \A n \in 1..Len(pin.terms) : Nothing(pin.terms[n].term)) =>
               Len(pout.filter) = 3

\* C25, the case: parse_join returned a clause of two predicates
C25_Witness ==
    /\ pin.call = "parse_join" /\ pout.exc = NoExc
    /\ Len(pin.terms) = 2
    /\ Cardinality(Placeholders(pout.filter)) = 2
    /\ ~Contains(pout.filter, " AND  ")
    /\ ~EndsWith(pout.filter, " AND ")

\* C25, the case of terms that are all None
C25_WitnessNothing ==
    /\ pin.call = "parse_join" /\ pout.exc = NoExc
    /\ Len(pin.terms) = 2
    /\ \A n \in 1..Len(pin.terms) : Nothing(pin.terms[n].term)
    /\ Len(pout.filter) = 3

\* what parse does: it adds a term's predicate only when it is not empty
C25_ParseIsWellFormed == pin.call = "parse" => C25_WellFormedConjunction

\* the place of the `)` that ends the placeholder starting at place i of s
NameEnd(s, i) ==
    CHOOSE j \in (i + 2)..Len(s) :
        /\ SubSeq(s, j, j) = ")"
        /\ \A k \in (i + 2)..(j - 1) : SubSeq(s, k, k) # ")"
\* the name in the placeholder %(name)s starting at place i of s
NameAt(s, i) == SubSeq(s, i + 2, NameEnd(s, i) - 1)
Closed(s, i) == \E j \in (i + 2)..(Len(s) - 1) : SubSeq(s, j, j + 1) = ")s"
RawTerm(term) == term.v.t = "str" /\ IsRaw(term.v)

\* C26: when parse or parse_join returns, every placeholder %(name)s of
\* the filter is complete and its name is a key of param; a mapping whose
\* terms are all raw literals has no placeholder
C26_PlaceholdersAreBound ==
    CompilerReturned =>
        /\ \A i \in Placeholders(pout.filter) :
               /\ Closed(pout.filter, i)
               /\ HasKey(pout.param, NameAt(pout.filter, i))
        /\ (pin.call = "parse_join" /\ \A n \in 1..Len(pin.terms) : RawTerm(pin.terms[n].term)) =>
               Placeholders(pout.filter) = {}

\* C26, the case: a filter of a LIKE placeholder and another one, both
\* bound
C26_Witness ==
    /\ CompilerReturned
    /\ Cardinality(Placeholders(pout.filter)) >= 2
    /\ \E n \in 1..Len(pin.terms) : IsLike(pin.terms[n].term) /\ pin.terms[n].term.v.t = "seq"
    /\ \A i \in Placeholders(pout.filter) : HasKey(pout.param, NameAt(pout.filter, i))

\* C26, the case of a raw literal: parse_join returned a clause without
\* placeholder for it
C26_WitnessRaw ==
    /\ pin.call = "parse_join" /\ pout.exc = NoExc
    /\ Len(pin.terms) = 1 /\ RawTerm(pin.terms[1].term)
    /\ Placeholders(pout.filter) = {}
    /\ Len(pout.filter) > 3

\* a term (pair of bounds, pair of boundary characters) of a mapping
IsRangeTerm(term) ==
    /\ term.pair /\ term.v.t = "seq" /\ Len(term.v.items) = 2
    /\ term.op.t = "str" /\ Len(term.op.chars) = 2 /\ Join(term.op.chars) # "IN"
\* one of its two boundary characters is none of ( [ and ) ]
InvalidBoundary(term) ==
    term.op.chars[1] \notin {"(", "["} \/ term.op.chars[2] \notin {")", "]"}
CompilerCalled == pin.call \in {"parse", "parse_join"}

\* C27: a mapping that starts with a range term one of whose boundary
\* characters is invalid makes parse and parse_join raise
\* OperationalError, whatever the two bounds are
C27_InvalidBoundaryRaises ==
    (CompilerCalled /\ pin.terms # <<>> /\ IsRangeTerm(pin.terms[1].term)
        /\ InvalidBoundary(pin.terms[1].term)) =>
        pout.exc.type = "OperationalError"

\* C27, the case: an invalid boundary character beside a bound that is
\* given has raised OperationalError
C27_Witness ==
    /\ CompilerCalled
    /\ pin.terms # <<>> /\ IsRangeTerm(pin.terms[1].term)
    /\ InvalidBoundary(pin.terms[1].term)
    /\ pout.exc = Exc("OperationalError", "Invalid Operator: " \o Join(pin.terms[1].term.op.chars))

\* what the compilers do: the character of a bound is looked at only when
\* the bound is truthy
C27_RaisesForGivenBounds ==
    (CompilerCalled /\ pin.terms # <<>> /\ IsRangeTerm(pin.terms[1].term)) =>
        (pout.exc.type = "OperationalError" <=>
            \/ Truth(pin.terms[1].term.v.items[1]) /\ pin.terms[1].term.op.chars[1] \notin {"(", "["}
            \/ Truth(pin.terms[1].term.v.items[2]) /\ pin.terms[1].term.op.chars[2] \notin {")", "]"})

SessionCalls == {"session_start", "session_commit", "session_rollback"}

\* C28: every call of session_start, session_commit or session_rollback
\* returns or raises, its thread going on afterwards; session_start on a
\* closed connection returns with the connection open and one transaction
\* on the stack
C28_SessionCallsReturn ==
    [][last'.op \in SessionCalls =>
          /\ pc'[last'.th] = "run"
          /\ last'.exc # Stuck
          /\ (last'.op = "session_start" /\ st[Slot(last'.th)].closed) =>
                 /\ Ok(last')
                 /\ ~st'[Slot(last'.th)].closed
                 /\ Len(st'[Slot(last'.th)].transactions) = 1]_vars

\* C28, the case: session_start has been called on a closed connection
C28_Witness ==
    /\ last.op = "session_start"
    /\ st[Slot(last.th)].closed
    /\ st[Slot(last.th)].transactions = <<>>

\* C28, the other calls: a session was committed or rolled back and the
\* call returned
C28_WitnessReturned ==
    /\ last.op \in {"session_commit", "session_rollback"}
    /\ Ok(last)
    /\ pc[last.th] = "run"

\* what the calls do on an open connection: they return or raise
C28_ReturnWhenOpen ==
    [][(last'.op \in SessionCalls /\ ~st[Slot(last'.th)].closed /\ lock = 0) =>
          /\ pc'[last'.th] = "run"
          /\ last'.exc # Stuck]_vars

\* C29: a connection state that is closed has an empty transaction stack,
\* an empty ctx stack and no connection; a state with a transaction on
\* its stack is open
C29_ClosedStateIsEmpty ==
    \A t \in Threads :
        /\ st[t].closed =>
               /\ st[t].transactions = <<>>
               /\ st[t].ctx = <<>>
               /\ st[t].conn = None
        /\ st[t].transactions # <<>> => ~st[t].closed

\* C29, the case: a close(), called directly or by the exit of the
\* outermost `with db:`, has just closed the driver's connection
C29_Witness ==
    /\ last.op \in {"close", "db.__exit__"}
    /\ Count(last.calls, "close") = 1
    /\ st[1].closed
    /\ st[1].transactions = <<>> /\ st[1].ctx = <<>> /\ st[1].conn = None

\* C29, the case of a call that failed while blocks are open
C29_WitnessFailed ==
    /\ ~Ok(last)
    /\ last.op \in {"close", "connect", "atomic.__enter__", "session_start"}
    /\ st[1].transactions # <<>>
    /\ ~st[1].closed

\* the last call ended a start_transaction block
StartExit(call) == call.op = "start.__exit__"

\* C30: every open start_transaction block accounts for one transaction
\* of the stack, so that when a block has ended, normally or by an
\* exception of its body, the depth is the number of blocks still open
\* around it, as it was before the block was entered, and the autocommit
\* mode of the connection the block was given is the one found on entry,
\* nested blocks included
C30_StartTransactionRestores ==
    /\ [](pc[1] = "run" => Depth(1) = Len(scopes[1]))
    /\ [][(StartExit(last') /\ pc'[last'.th] = "run") =>
             /\ Len(st'[Slot(last'.th)].transactions) = Len(scopes'[last'.th])
             /\ drv'[Top(last'.th).conn].autocommit = Top(last'.th).auto]_vars

\* C30, the case: a nested start_transaction block has ended by an
\* exception, one block being still open
C30_Witness ==
    /\ StartExit(last)
    /\ Raised(last)
    /\ last.exc.type = "BodyError"
    /\ Len(scopes[1]) = 1
    /\ Depth(1) = 1

\* C30, the case of a block that ended normally
C30_WitnessNormal ==
    /\ StartExit(last)
    /\ ~Raised(last)
    /\ Ok(last)
    /\ Len(scopes[1]) = 0
    /\ Depth(1) = 0

\* what the exits do restore: the autocommit mode, in every case
C30_AutocommitRestored ==
    [][(StartExit(last') /\ pc'[last'.th] = "run") =>
          drv'[Top(last'.th).conn].autocommit = Top(last'.th).auto]_vars

\* what the exits do when the text of the body's exception formats with
\* {} : the depth is restored
C30_DepthRestoredForPlainText ==
    [][(StartExit(last') /\ pc'[last'.th] = "run" /\ Depth(last'.th) = Len(scopes[last'.th])
            /\ FormatError(last'.sql, PDict({})) = NoExc) =>
          Len(st'[Slot(last'.th)].transactions) = Len(scopes'[last'.th])]_vars

=============================================================================
